---- MODULE Spec2Model ----
(***************************************************************************)
(* Model of the planet-materializer pipeline (plmat):                      *)
(*   - mesh topology generators   src/src/model/obj.rs, x3dgeospatial.rs   *)
(*   - tile sequence generator    src/src/input/types.rs                   *)
(*   - elevation source           src/src/input/dem/arcsec3.rs             *)
(*   - concurrent sampler         src/src/model/types.rs                   *)
(*   - process entry point        src/src/main.rs                          *)
(*                                                                         *)
(* Coordinates are f64 in the source; here they are exact rationals        *)
(* <<n, d>> in lowest terms with d >= 1.  Angles are measured in a unit    *)
(* such that a quarter turn is QuarterTurn units (90 in the source, where  *)
(* the unit is the degree); a tile is one unit wide and one unit high.     *)
(***************************************************************************)
EXTENDS Integers, Sequences, FiniteSets, Bags, TLC

\* ------------------------------------------------------------------------
\* Bounds
\* ------------------------------------------------------------------------
\* angular units in a quarter turn (the source has 90: degrees)
QuarterTurn == 1
\* largest number of sampling workers (settings.jobs)
MaxJobs == 2
\* largest requested model size of a sampling pass
MaxModelSize == 4
\* largest requested model size handed to the topology generators alone
MaxGenSize == 12

\* the longest color profile, in lines
MaxLines == 3
\* largest color precision (settings.color_precision)
MaxPrecision == 7
\* a sampled point lies on a multiple of 1/CellParts of a grid cell
CellParts == 2
\* the longest byte vector given to vec_u8_to_i16 alone
MaxBytes == 4

\* ------------------------------------------------------------------------
\* Angles: 180 and 360 of the source
\* ------------------------------------------------------------------------
HalfTurn == 2 * QuarterTurn
FullTurn == 4 * QuarterTurn

\* Option<T>: None, Some(v)
None == <<>>
Some(v) == <<v>>
Unwrap(o) == o[1]

\* Result<T, String>
Ok(v) == [tag |-> "Ok", val |-> v, msg |-> <<>>]
Err(msg) == [tag |-> "Err", val |-> <<>>, msg |-> msg]

\* ------------------------------------------------------------------------
\* Exact rationals standing for Coord (f64)
\* ------------------------------------------------------------------------
Abs(x) == IF x < 0 THEN -x ELSE x

\* Euclid's algorithm
GCD[a \in Nat, b \in Nat] == IF b = 0 THEN a ELSE GCD[b, a % b]

\* the fraction n/d (d > 0) in lowest terms
Lowest[n \in Int, d \in Nat] == LET g == GCD[Abs(n), d] IN <<n \div g, d \div g>>

Fractions == Int \X Nat
Sum[p \in Fractions, q \in Fractions] == Lowest[p[1] * q[2] + q[1] * p[2], p[2] * q[2]]
Product[p \in Fractions, q \in Fractions] == Lowest[p[1] * q[1], p[2] * q[2]]

\* the rational n/d (d > 0) in lowest terms
Rat(n, d) == Lowest[n, d]

RInt(n) == <<n, 1>>
RAdd(p, q) == Sum[p, q]
RMul(p, q) == Product[p, q]
RNeg(p) == <<-p[1], p[2]>>
RLess(p, q) == p[1] * q[2] < q[1] * p[2]
\* f64::floor
Floor(p) == p[1] \div p[2]

\* map insert (BTreeMap::insert / HashMap::insert)
Insert(map, k, v) == (k :> v) @@ map

EmptyMap == <<>>

\* GeoPoint {lon, lat}
GeoPoint(lon, lat) == [lon |-> lon, lat |-> lat]


\* ------------------------------------------------------------------------
\* Tile sequence generator (src/src/input/types.rs)
\* ------------------------------------------------------------------------
\* TileID {lon, lat}
TileID(lon, lat) == [lon |-> lon, lat |-> lat]

\* get_max_number_of_tiles: 180*360
get_max_number_of_tiles == HalfTurn * FullTurn

\* TileID::next with the quotient and the remainder exchanged
TileID_next_LonFastest(count, limit) ==
    IF count >= limit
    THEN None
    ELSE Some(TileID((count % FullTurn) - HalfTurn, (count \div FullTurn) - QuarterTurn))

\* TileID::next applied to the value count returned by next_integer
TileID_next(count, limit) ==
    IF count >= limit
    THEN None
    ELSE Some(TileID((count \div HalfTurn) - HalfTurn, (count % HalfTurn) - QuarterTurn))

\* the tiles of the legal coordinate space: lon in -180..179, lat in -90..89
LegalTiles == {TileID(lon, lat) : lon \in (-HalfTurn)..(HalfTurn - 1),
                                  lat \in (-QuarterTurn)..(QuarterTurn - 1)}

\* a find_tile_id that drops the fraction of a coordinate (rounds toward zero)
find_tile_id_Truncate(geo_point) ==
    LET trunc(p) == IF p[1] < 0 THEN -((-p[1]) \div p[2]) ELSE p[1] \div p[2]
    IN  TileID(trunc(geo_point.lon), trunc(geo_point.lat))

\* DemArc3SecOpts::find_tile_id
find_tile_id(geo_point) == TileID(Floor(geo_point.lon), Floor(geo_point.lat))

\* ------------------------------------------------------------------------
\* Seam-duplicating topology (src/src/model/obj.rs)
\* ------------------------------------------------------------------------
MIN_VALID_MODEL_SIZE_OBJ == 2
DEFAULT_MODEL_SIZE == 16

\* a normalization that rounds an odd size up to the next even size
Obj_make_valid_model_size_RoundUp(model_size) ==
    LET _model_size == IF model_size = None THEN DEFAULT_MODEL_SIZE ELSE Unwrap(model_size)
    IN  IF _model_size < MIN_VALID_MODEL_SIZE_OBJ
        THEN MIN_VALID_MODEL_SIZE_OBJ
        ELSE IF 2 * (_model_size \div 2) = _model_size
             THEN _model_size
             ELSE _model_size + 1

\* Obj::make_valid_model_size
Obj_make_valid_model_size(model_size) ==
    LET _model_size == IF model_size = None THEN DEFAULT_MODEL_SIZE ELSE Unwrap(model_size)
    IN  IF _model_size < MIN_VALID_MODEL_SIZE_OBJ
        THEN MIN_VALID_MODEL_SIZE_OBJ
        ELSE IF 2 * (_model_size \div 2) = _model_size
             THEN _model_size
             ELSE _model_size - 1

\* Obj::define_spacing / X3DGeospatial::define_spacing: 180.0/model_size
define_spacing(model_size) == Rat(HalfTurn, model_size)

\* one insertion of a lattice point together with its own texture point
ObjPushPoint(st, lon, lat) ==
    [st EXCEPT !.geopoints      = Insert(st.geopoints, st.point_index_r, GeoPoint(lon, lat)),
               !.texture_points = Insert(st.texture_points, st.point_index_t, st.point_index_r),
               !.point_index_r  = st.point_index_r + 1,
               !.point_index_t  = st.point_index_t + 1]

\* a generator that adds no texture point at the seam
ObjPushSeam_NoSeam(st, r) == st

\* one insertion of a seam texture point that refers to an existing lattice point
ObjPushSeam(st, r) ==
    [st EXCEPT !.texture_points = Insert(st.texture_points, st.point_index_t, r),
               !.point_index_t = st.point_index_t + 1]

\* "equator points": for i in 0..4*gnn (st.i is the loop variable)
RECURSIVE ObjEquatorPoints(_, _, _)
ObjEquatorPoints(gnn, j_spacing, st) ==
    IF st.i >= 4 * gnn
    THEN st
    ELSE LET lon == RAdd(RInt(-HalfTurn), RMul(j_spacing, RInt(st.i)))
         IN  ObjEquatorPoints(gnn, j_spacing,
                [ObjPushPoint(st, lon, RInt(0)) EXCEPT !.i = st.i + 1])

\* inner loop of "north and south hemispheres points": for i in 0..i_len
RECURSIVE ObjRingPoints(_, _, _, _, _)
ObjRingPoints(i_len, i_spacing, j_spacing, j, st) ==
    IF st.i >= i_len
    THEN st
    ELSE LET lon   == RAdd(RInt(-HalfTurn), RMul(i_spacing, RInt(st.i)))
             north == ObjPushPoint(st, lon, RMul(j_spacing, RInt(j)))
             south == ObjPushPoint(north, lon, RMul(RNeg(j_spacing), RInt(j)))
         IN  ObjRingPoints(i_len, i_spacing, j_spacing, j, [south EXCEPT !.i = st.i + 1])

\* outer loop of "north and south hemispheres points": for j in 1..gnn
RECURSIVE ObjHemispherePoints(_, _, _)
ObjHemispherePoints(gnn, j_spacing, st) ==
    IF st.j >= gnn
    THEN st
    ELSE LET start_point_index_n == st.point_index_r
             start_point_index_s == st.point_index_r + 1
             i_len     == 4 * (gnn - st.j)
             i_spacing == Rat(FullTurn, i_len)
             ring      == ObjRingPoints(i_len, i_spacing, j_spacing, st.j, [st EXCEPT !.i = 0])
             seam      == ObjPushSeam(ObjPushSeam(ring, start_point_index_n), start_point_index_s)
         IN  ObjHemispherePoints(gnn, j_spacing, [seam EXCEPT !.j = st.j + 1])

\* a generator whose equator seam closes on the second equator point
ObjPoints_SeamOnSecond(model_size, j_spacing) ==
    LET gnn     == model_size \div 2
        st0     == [geopoints |-> EmptyMap, texture_points |-> EmptyMap,
                    point_index_r |-> 0, point_index_t |-> 0, i |-> 0, j |-> 1]
        equator == ObjPushSeam(ObjEquatorPoints(gnn, j_spacing, st0), 1)
        rings   == ObjHemispherePoints(gnn, j_spacing, equator)
        north   == ObjPushPoint(rings, RInt(0), RInt(QuarterTurn))
        south   == ObjPushPoint(north, RInt(0), RInt(-QuarterTurn))
    IN  south

\* the point part of Obj::create_modelpoints: equator, hemispheres, poles
ObjPoints(model_size, j_spacing) ==
    LET gnn     == model_size \div 2
        st0     == [geopoints |-> EmptyMap, texture_points |-> EmptyMap,
                    point_index_r |-> 0, point_index_t |-> 0, i |-> 0, j |-> 1]
        equator == ObjPushSeam(ObjEquatorPoints(gnn, j_spacing, st0), 0)
        rings   == ObjHemispherePoints(gnn, j_spacing, equator)
        north   == ObjPushPoint(rings, RInt(0), RInt(QuarterTurn))
        \* the last insertion does not advance the counters
        south   == ObjPushPoint(north, RInt(0), RInt(-QuarterTurn))
    IN  south

\* "equator triangles": for i in 0..i_len
RECURSIVE ObjEquatorTriangles(_, _)
ObjEquatorTriangles(gnn, st) ==
    IF st.i >= 4 * gnn
    THEN st
    ELSE LET i          == st.i
             index_low  == st.index_low
             index_hi_n == st.index_hi_n + (IF i % gnn = 0 THEN 0 ELSE 2)
             index_hi_s == st.index_hi_s + (IF i % gnn = 0 THEN 0 ELSE 2)
             pair == <<<<index_low, index_low + 1, index_hi_n>>,
                       <<index_low + 1, index_low, index_hi_s>>>>
             fill == IF i % gnn # 0
                     THEN <<<<index_low, index_hi_n, index_hi_n - 2>>,
                            <<index_low, index_hi_s - 2, index_hi_s>>>>
                     ELSE <<>>
         IN  ObjEquatorTriangles(gnn,
                [st EXCEPT !.elements = st.elements \o pair \o fill,
                           !.index_low = index_low + 1,
                           !.index_hi_n = index_hi_n,
                           !.index_hi_s = index_hi_s,
                           !.i = i + 1])

\* inner loop of "north and south hemisphere triangles": for i in 0..i_len
RECURSIVE ObjRingTriangles(_, _, _)
ObjRingTriangles(j, gnn, st) ==
    IF st.i >= 4 * (gnn - j)
    THEN st
    ELSE LET i          == st.i
             index_hi_n == st.index_hi_n + (IF i % (gnn - j) = 0 THEN 0 ELSE 2)
             index_hi_s == st.index_hi_s + (IF i % (gnn - j) = 0 THEN 0 ELSE 2)
             pair == <<<<st.index_low_n, st.index_low_n + 2, index_hi_n>>,
                       <<st.index_low_s + 2, st.index_low_s, index_hi_s>>>>
             fill == IF j < gnn - 1 /\ i % (gnn - j) # 0
                     THEN <<<<st.index_low_n, index_hi_n, index_hi_n - 2>>,
                            <<st.index_low_s, index_hi_s - 2, index_hi_s>>>>
                     ELSE <<>>
         IN  ObjRingTriangles(j, gnn,
                [st EXCEPT !.elements = st.elements \o pair \o fill,
                           !.index_hi_n = index_hi_n,
                           !.index_hi_s = index_hi_s,
                           !.index_low_n = st.index_low_n + 2,
                           !.index_low_s = st.index_low_s + 2,
                           !.i = i + 1])

\* outer loop of "north and south hemisphere triangles": for j in 1..gnn-1
RECURSIVE ObjHemisphereTriangles(_, _)
ObjHemisphereTriangles(gnn, st) ==
    IF st.j >= gnn - 1
    THEN st
    ELSE LET ring == ObjRingTriangles(st.j, gnn, [st EXCEPT !.i = 0])
         IN  ObjHemisphereTriangles(gnn,
                [ring EXCEPT !.index_hi_n = ring.index_hi_n + 2,
                             !.index_hi_s = ring.index_hi_s + 2,
                             !.index_low_n = ring.index_low_n + 2,
                             !.index_low_s = ring.index_low_s + 2,
                             !.j = st.j + 1])

\* a pole fan whose southern triangles are wound like the northern ones
RECURSIVE ObjPoleTriangles_SameWinding(_)
ObjPoleTriangles_SameWinding(st) ==
    IF st.i >= 4
    THEN st
    ELSE ObjPoleTriangles_SameWinding(
            [st EXCEPT !.elements = st.elements \o
                            <<<<st.index_low_n, st.index_low_n + 2, st.index_hi_n>>,
                              <<st.index_low_s, st.index_low_s + 2, st.index_hi_s>>>>,
                       !.index_low_n = st.index_low_n + 2,
                       !.index_low_s = st.index_low_s + 2,
                       !.i = st.i + 1])

\* "pole triangles", gnn != 1: for _ in 0..4
RECURSIVE ObjPoleTriangles(_)
ObjPoleTriangles(st) ==
    IF st.i >= 4
    THEN st
    ELSE ObjPoleTriangles(
            [st EXCEPT !.elements = st.elements \o
                            <<<<st.index_low_n, st.index_low_n + 2, st.index_hi_n>>,
                              <<st.index_low_s + 2, st.index_low_s, st.index_hi_s>>>>,
                       !.index_low_n = st.index_low_n + 2,
                       !.index_low_s = st.index_low_s + 2,
                       !.i = st.i + 1])

\* a degenerate pole fan that names the pole counters as they stand
RECURSIVE ObjPoleTrianglesDegenerate_NoBackstep(_)
ObjPoleTrianglesDegenerate_NoBackstep(st) ==
    IF st.i >= 4
    THEN st
    ELSE ObjPoleTrianglesDegenerate_NoBackstep(
            [st EXCEPT !.elements = st.elements \o
                            <<<<st.index_low, st.index_low + 1, st.index_hi_n>>,
                              <<st.index_low + 1, st.index_low, st.index_hi_s>>>>,
                       !.index_low = st.index_low + 1,
                       !.i = st.i + 1])

\* "pole triangles", gnn = 1: for _ in 0..4
RECURSIVE ObjPoleTrianglesDegenerate(_)
ObjPoleTrianglesDegenerate(st) ==
    IF st.i >= 4
    THEN st
    ELSE ObjPoleTrianglesDegenerate(
            [st EXCEPT !.elements = st.elements \o
                            <<<<st.index_low, st.index_low + 1, st.index_hi_n - 2>>,
                              <<st.index_low + 1, st.index_low, st.index_hi_s - 2>>>>,
                       !.index_low = st.index_low + 1,
                       !.i = st.i + 1])

\* the triangle part of Obj::create_modelpoints
ObjElements(model_size) ==
    LET gnn == model_size \div 2
        st0 == [elements |-> <<>>, index_low |-> 0,
                index_hi_n |-> 4 * gnn + 1, index_hi_s |-> 4 * gnn + 2,
                index_low_n |-> 0, index_low_s |-> 0, i |-> 0, j |-> 1]
        equator == IF 4 * gnn > 4 THEN ObjEquatorTriangles(gnn, st0) ELSE st0
        st1 == [equator EXCEPT !.index_low_n = equator.index_low + 1,
                               !.index_low_s = equator.index_low + 2,
                               !.index_hi_n = equator.index_hi_n + 2,
                               !.index_hi_s = equator.index_hi_s + 2]
        rings == ObjHemisphereTriangles(gnn, st1)
        poles == IF gnn # 1
                 THEN ObjPoleTriangles([rings EXCEPT !.i = 0])
                 ELSE ObjPoleTrianglesDegenerate([rings EXCEPT !.i = 0])
    IN  poles.elements

\* Obj::create_modelpoints: (ModelPoints {geopoints, points_map_opt}, elements)
Obj_create_modelpoints(model_size, j_spacing) ==
    LET pts == ObjPoints(model_size, j_spacing)
    IN  [geopoints      |-> pts.geopoints,
         points_map_opt |-> Some(pts.texture_points),
         elements       |-> ObjElements(model_size)]

\* create_texture_coordinates, "equator points": for i in 0..=4*gnn
ObjTextureEquator(gnn) ==
    LET u_spacing_e == Rat(1, 4 * gnn)
    IN  [n \in 1..(4 * gnn + 1) |-> <<RMul(u_spacing_e, RInt(n - 1)), Rat(1, 2)>>]

\* a ring whose u runs with the spacing of the equator
ObjTextureRing_EquatorSpacing(gnn, j) ==
    LET i_len     == 4 * (gnn - j)
        v_spacing == Rat(1, 2 * gnn)
        u_spacing == Rat(1, 4 * gnn)
    IN  [n \in 1..(2 * (i_len + 1)) |->
            LET i == (n - 1) \div 2
            IN  <<RMul(u_spacing, RInt(i)),
                  IF n % 2 = 1
                  THEN RAdd(Rat(1, 2), RMul(v_spacing, RInt(j)))
                  ELSE RAdd(Rat(1, 2), RNeg(RMul(v_spacing, RInt(j))))>>]

\* create_texture_coordinates, ring j: for i in 0..=i_len, north then south
ObjTextureRing(gnn, j) ==
    LET i_len     == 4 * (gnn - j)
        v_spacing == Rat(1, 2 * gnn)
        u_spacing == IF i_len # 0 THEN Rat(1, i_len) ELSE RInt(0)
    IN  [n \in 1..(2 * (i_len + 1)) |->
            LET i == (n - 1) \div 2
            IN  <<RMul(u_spacing, RInt(i)),
                  IF n % 2 = 1
                  THEN RAdd(Rat(1, 2), RMul(v_spacing, RInt(j)))
                  ELSE RAdd(Rat(1, 2), RNeg(RMul(v_spacing, RInt(j))))>>]

\* create_texture_coordinates, "north and south hemispheres points": for j in 1..gnn
RECURSIVE ObjTextureRings(_, _)
ObjTextureRings(gnn, j) ==
    IF j >= gnn THEN <<>> ELSE ObjTextureRing(gnn, j) \o ObjTextureRings(gnn, j + 1)

\* create_texture_coordinates, "north and south pole points": for i in 0..=0
ObjTexturePoles ==
    LET u_spacing == Rat(1, 3)
    IN  <<<<RMul(u_spacing, RInt(0)), RInt(1)>>, <<RMul(u_spacing, RInt(0)), RInt(0)>>>>

\* Obj::create_texture_coordinates
Obj_create_texture_coordinates(model_size) ==
    LET gnn == model_size \div 2
    IN  ObjTextureEquator(gnn) \o ObjTextureRings(gnn, 1) \o ObjTexturePoles

\* Obj::save, "elements": the corners of every triangle looked up in the
\* points mapping; the first corner that is missing ends the loop with an
\* error, otherwise every face is written with its lattice indices
ObjSaveElements(points_map_opt, elements) ==
    IF points_map_opt = None
    THEN Err(<<"Critical: Texture Appearance must use points mapping">>)
    ELSE LET pmap == Unwrap(points_map_opt)
             missing(n) == {c \in 1..3 : elements[n][c] \notin DOMAIN pmap}
             bad == {n \in DOMAIN elements : missing(n) # {}}
         IN  IF bad # {}
             THEN LET n == CHOOSE x \in bad : \A y \in bad : x <= y
                      c == CHOOSE x \in missing(n) : \A y \in missing(n) : x <= y
                  IN  Err(<<"Point isn't found in points mapping", c - 1, elements[n][c]>>)
             ELSE Ok([n \in DOMAIN elements |->
                        <<pmap[elements[n][1]], pmap[elements[n][2]], pmap[elements[n][3]]>>])

\* ------------------------------------------------------------------------
\* Uniform topology (src/src/model/x3dgeospatial.rs)
\* ------------------------------------------------------------------------
MIN_VALID_MODEL_SIZE_X3D == 4

\* a normalization that does not clamp to the minimum
X3D_make_valid_model_size_NoClamp(model_size) ==
    IF model_size = None THEN MIN_VALID_MODEL_SIZE_X3D ELSE Unwrap(model_size)

\* X3DGeospatial::make_valid_model_size
X3D_make_valid_model_size(model_size) ==
    LET _model_size == IF model_size = None THEN MIN_VALID_MODEL_SIZE_X3D ELSE Unwrap(model_size)
    IN  IF _model_size < MIN_VALID_MODEL_SIZE_X3D
        THEN MIN_VALID_MODEL_SIZE_X3D
        ELSE _model_size

\* a grid whose last column is not wrapped back to column 0
X3DPoint_NoWrap(i, j, model_size, spacing) ==
    GeoPoint(RAdd(RInt(-HalfTurn), RMul(spacing, RInt(i))),
             RAdd(RInt(-QuarterTurn), RMul(spacing, RInt(IF j = model_size THEN 0 ELSE j))))

\* the point inserted for column i of row j
X3DPoint(i, j, model_size, spacing) ==
    LET model_size2 == 2 * model_size
    IN  GeoPoint(RAdd(RInt(-HalfTurn), RMul(spacing, RInt(IF i = model_size2 THEN 0 ELSE i))),
                 RAdd(RInt(-QuarterTurn), RMul(spacing, RInt(IF j = model_size THEN 0 ELSE j))))

\* a row loop that places the last row at latitude 90
RECURSIVE X3DRowPoints_TopRow(_, _, _, _)
X3DRowPoints_TopRow(j, model_size, spacing, st) ==
    IF st.i > 2 * model_size
    THEN st
    ELSE X3DRowPoints_TopRow(j, model_size, spacing,
            [geopoints |-> Insert(st.geopoints, st.count,
                                  GeoPoint(X3DPoint(st.i, j, model_size, spacing).lon,
                                           RAdd(RInt(-QuarterTurn), RMul(spacing, RInt(j))))),
             count     |-> st.count + 1,
             i         |-> st.i + 1,
             j         |-> st.j])

\* inner loop: for i in 0..=model_size2 { insert(count, ..); count += 1 }
RECURSIVE X3DRowPoints(_, _, _, _)
X3DRowPoints(j, model_size, spacing, st) ==
    IF st.i > 2 * model_size
    THEN st
    ELSE X3DRowPoints(j, model_size, spacing,
            [geopoints |-> Insert(st.geopoints, st.count, X3DPoint(st.i, j, model_size, spacing)),
             count     |-> st.count + 1,
             i         |-> st.i + 1,
             j         |-> st.j])

\* outer loop: for j in 0..=model_size
RECURSIVE X3DPoints(_, _, _)
X3DPoints(model_size, spacing, st) ==
    IF st.j > model_size
    THEN st
    ELSE LET row == X3DRowPoints(st.j, model_size, spacing, [st EXCEPT !.i = 0])
         IN  X3DPoints(model_size, spacing, [row EXCEPT !.j = st.j + 1])

\* X3DGeospatial::create_modelpoints
X3D_create_modelpoints(model_size, spacing) ==
    [geopoints      |-> X3DPoints(model_size, spacing,
                            [geopoints |-> EmptyMap, count |-> 0, i |-> 0, j |-> 0]).geopoints,
     points_map_opt |-> None,
     elements       |-> <<>>]

\* ------------------------------------------------------------------------
\* Strategy dispatch (trait Model, src/src/model/types.rs; main.rs)
\* ------------------------------------------------------------------------
make_valid_model_size(strategy, model_size) ==
    IF strategy = "Obj"
    THEN Obj_make_valid_model_size(model_size)
    ELSE X3D_make_valid_model_size(model_size)

create_modelpoints(strategy, model_size, spacing) ==
    IF strategy = "Obj"
    THEN Obj_create_modelpoints(model_size, spacing)
    ELSE X3D_create_modelpoints(model_size, spacing)

\* Model::create_texture_coordinates: the default of the trait (an empty
\* Vec) unless the strategy overrides it
create_texture_coordinates(strategy, model_size) ==
    IF strategy = "Obj" THEN Obj_create_texture_coordinates(model_size) ELSE <<>>

\* the keys of a set in ascending order (iteration order of a BTreeMap)
Ascending(keys) ==
    [n \in 1..Cardinality(keys) |->
        CHOOSE k \in keys : Cardinality({y \in keys : y < k}) = n - 1]

\* a mapping that files a point of latitude 90 under the tile row below it
create_geopoints_tiles_ClampPole(geopoints) ==
    LET clamp(t) == IF t.lat >= QuarterTurn THEN TileID(t.lon, QuarterTurn - 1) ELSE t
        tile_ids == {clamp(find_tile_id(geopoints[k])) : k \in DOMAIN geopoints}
        group(tile_id) ==
            LET ks == Ascending({k \in DOMAIN geopoints :
                                    clamp(find_tile_id(geopoints[k])) = tile_id})
            IN  [n \in DOMAIN ks |-> <<ks[n], geopoints[ks[n]]>>]
    IN  [tile_id \in tile_ids |-> group(tile_id)]

\* Model::create_geopoints_tiles: one pass over the lattice in ascending key
\* order; (k, geo_point) is pushed onto the vector of find_tile_id(geo_point),
\* which is created at the first point of the tile
create_geopoints_tiles(geopoints) ==
    LET tile_ids == {find_tile_id(geopoints[k]) : k \in DOMAIN geopoints}
        group(tile_id) ==
            LET ks == Ascending({k \in DOMAIN geopoints : find_tile_id(geopoints[k]) = tile_id})
            IN  [n \in DOMAIN ks |-> <<ks[n], geopoints[ks[n]]>>]
    IN  [tile_id \in tile_ids |-> group(tile_id)]

\* ------------------------------------------------------------------------
\* Color table (src/src/common/color.rs)
\* A line of the color profile is a sequence of tokens: white space, a run
\* of digits (its value), a run of digits with a decimal point (its value in
\* tenths) or other text.  Number tokens are those the parse of the source
\* accepts (an elevation within i16, a well-formed decimal).
\* RGB is a triple of rationals.
\* ------------------------------------------------------------------------
\* a blank line
Skipped == <<>>

WhiteSpace == [kind |-> "space", val |-> 0]
Text == [kind |-> "text", val |-> 0]
Digits(n) == [kind |-> "digits", val |-> n]
Decimal(tenths) == [kind |-> "decimal", val |-> tenths]

\* the line "<h> <r> <g> <b>" with the channels written as decimals in tenths
Row(h, r, g, b) ==
    <<Digits(h), WhiteSpace, Decimal(r), WhiteSpace, Decimal(g), WhiteSpace, Decimal(b)>>

\* the value of a token that matches [0-9.]+, in tenths
Tenths(token) == IF token.kind = "digits" THEN 10 * token.val ELSE token.val

\* a matcher that lets white space stand before the first field
re_captures_LeadingSpace(line) ==
    LET fields == SelectSeq(line, LAMBDA token : token.kind # "space")
    IN  IF /\ Len(fields) = 4
           /\ fields[1].kind = "digits"
           /\ \A n \in 2..4 : fields[n].kind \in {"digits", "decimal"}
           /\ \A n \in 1..(Len(line) - 1) :
                    line[n].kind = "space" \/ line[n + 1].kind = "space"
        THEN Some(<<fields[1].val, Tenths(fields[2]), Tenths(fields[3]), Tenths(fields[4])>>)
        ELSE None

\* re.captures(&line) for ^([0-9]+)\s+([0-9.]+)\s+([0-9.]+)\s+([0-9.]+)\s*$ and the
\* parse of the four captures: <<h, r, g, b>> with the channels in tenths
re_captures(line) ==
    LET fields == SelectSeq(line, LAMBDA token : token.kind # "space")
    IN  IF /\ Len(fields) = 4
           /\ line[1].kind = "digits"
           /\ \A n \in 2..4 : fields[n].kind \in {"digits", "decimal"}
           /\ \A n \in 1..(Len(line) - 1) :
                    line[n].kind = "space" \/ line[n + 1].kind = "space"
        THEN Some(<<fields[1].val, Tenths(fields[2]), Tenths(fields[3]), Tenths(fields[4])>>)
        ELSE None

RGB(r, g, b) == <<r, g, b>>

ColorRecord(h, r, g, b) == [h |-> h, r |-> r, g |-> g, b |-> b]

\* a loop that compares the elevation before it checks the channels
RECURSIVE ColorTableLoop_HeightFirst(_, _)
ColorTableLoop_HeightFirst(file_content, st) ==
    IF st.l >= Len(file_content) \/ st.err # <<>>
    THEN st
    ELSE LET l    == st.l + 1
             caps == re_captures(file_content[l])
         IN  IF caps = None
             THEN ColorTableLoop_HeightFirst(file_content, [st EXCEPT !.l = l])
             ELSE LET h == Unwrap(caps)[1]
                      r == Rat(Unwrap(caps)[2], 10)
                      g == Rat(Unwrap(caps)[3], 10)
                      b == Rat(Unwrap(caps)[4], 10)
                      one == RInt(1)
                      zero == RInt(0)
                  IN  IF h <= st.prev_h
                      THEN [st EXCEPT !.l = l, !.err = <<"Heights in color profile must be strictly incremental">>]
                      ELSE IF RLess(one, r) \/ RLess(r, zero)
                      THEN [st EXCEPT !.l = l, !.err = <<"Invalid number in second column of line", l, "in color profile">>]
                      ELSE IF RLess(one, g) \/ RLess(g, zero)
                      THEN [st EXCEPT !.l = l, !.err = <<"Invalid number in third column of line", l, "in color profile">>]
                      ELSE IF RLess(one, b) \/ RLess(b, zero)
                      THEN [st EXCEPT !.l = l, !.err = <<"Invalid number in fourth column of line", l, "in color profile">>]
                      ELSE ColorTableLoop_HeightFirst(file_content,
                              [st EXCEPT !.l = l, !.prev_h = h,
                                         !.color_table = Append(st.color_table, ColorRecord(h, r, g, b))])

\* the loop of build_color_table over the lines; st.l counts the lines read
RECURSIVE ColorTableLoop(_, _)
ColorTableLoop(file_content, st) ==
    IF st.l >= Len(file_content) \/ st.err # <<>>
    THEN st
    ELSE LET l    == st.l + 1
             caps == re_captures(file_content[l])
         IN  IF caps = None
             THEN ColorTableLoop(file_content, [st EXCEPT !.l = l])
             ELSE LET h == Unwrap(caps)[1]
                      r == Rat(Unwrap(caps)[2], 10)
                      g == Rat(Unwrap(caps)[3], 10)
                      b == Rat(Unwrap(caps)[4], 10)
                      one == RInt(1)
                      zero == RInt(0)
                  IN  IF RLess(one, r) \/ RLess(r, zero)
                      THEN [st EXCEPT !.l = l, !.err = <<"Invalid number in second column of line", l, "in color profile">>]
                      ELSE IF RLess(one, g) \/ RLess(g, zero)
                      THEN [st EXCEPT !.l = l, !.err = <<"Invalid number in third column of line", l, "in color profile">>]
                      ELSE IF RLess(one, b) \/ RLess(b, zero)
                      THEN [st EXCEPT !.l = l, !.err = <<"Invalid number in fourth column of line", l, "in color profile">>]
                      ELSE IF h <= st.prev_h
                      THEN [st EXCEPT !.l = l, !.err = <<"Heights in color profile must be strictly incremental">>]
                      ELSE ColorTableLoop(file_content,
                              [st EXCEPT !.l = l, !.prev_h = h,
                                         !.color_table = Append(st.color_table, ColorRecord(h, r, g, b))])

\* build_color_table
build_color_table(file_content) ==
    LET st == ColorTableLoop(file_content,
                    [l |-> 0, prev_h |-> -32767, color_table |-> <<>>, err |-> <<>>])
    IN  IF st.err # <<>>
        THEN Err(st.err)
        ELSE IF st.color_table = <<>>
             THEN Err(<<"Color table is empty">>)
             ELSE Ok(st.color_table)

\* a mapping whose segments leave out the biggest height
build_color_mapping_NoLast(color_table) ==
    LET n == Len(color_table)
    IN  [h \in UNION {color_table[i].h .. (color_table[i + 1].h - 1) : i \in 1..(n - 1)} |->
            LET i == CHOOSE k \in 1..(n - 1) : color_table[k].h <= h /\ h < color_table[k + 1].h
            IN  RGB(color_table[i].r, color_table[i].g, color_table[i].b)]

\* build_color_mapping: the last row, then every h in h0..h1-1 of every pair
\* of consecutive rows
build_color_mapping(color_table) ==
    LET n    == Len(color_table)
        last == color_table[n]
        seg(h) == CHOOSE i \in 1..(n - 1) : color_table[i].h <= h /\ h < color_table[i + 1].h
        interp(c0, c1, h, h0, h1) ==
            RAdd(c0, RMul(RAdd(c1, RNeg(c0)), Rat(h - h0, h1 - h0)))
        entry(h) ==
            LET i  == seg(h)
                p  == color_table[i]
                q  == color_table[i + 1]
            IN  RGB(interp(p.r, q.r, h, p.h, q.h),
                    interp(p.g, q.g, h, p.h, q.h),
                    interp(p.b, q.b, h, p.h, q.h))
        keys == {last.h} \cup
                UNION {color_table[i].h .. (color_table[i + 1].h - 1) : i \in 1..(n - 1)}
    IN  [h \in keys |-> IF h = last.h THEN RGB(last.r, last.g, last.b) ELSE entry(h)]

\* panic!("Missing color for elevation {}", h)
Panic == <<"panic">>

\* the closure returned by get_color_mapping, applied to h
color_mapping(color_table, h) ==
    LET first == color_table[1]
        last  == color_table[Len(color_table)]
        map   == build_color_mapping(color_table)
    IN  IF h \in DOMAIN map
        THEN map[h]
        ELSE IF h < first.h THEN RGB(first.r, first.g, first.b)
        ELSE IF h > last.h THEN RGB(last.r, last.g, last.b)
        ELSE Panic

\* get_color_mapping: read_lines, then build_color_table; a color profile
\* file is [readable, lines]
get_color_mapping(file) ==
    IF ~file.readable
    THEN Err(<<"read_to_string">>)
    ELSE build_color_table(file.lines)

\* ------------------------------------------------------------------------
\* The allowed colors.  Here a ColorComponent keeps the rounding of f32: a
\* value is <<m, e>>, standing for m * 2^e, with m = 0 and e = 0 for zero
\* and 2^23 <= m < 2^24 otherwise; every operation rounds to the nearest
\* value, ties to the even mantissa.
\* ------------------------------------------------------------------------
Pow2[n \in Nat] == IF n = 0 THEN 1 ELSE 2 * Pow2[n - 1]

F32Zero == <<0, 0>>

\* the quotient q with remainder r of the divisor d, rounded to nearest even
RoundNearestEven(q, r, d) ==
    IF 2 * r > d \/ (2 * r = d /\ q % 2 = 1) THEN q + 1 ELSE q

F32Normal(m, e) == IF m = Pow2[24] THEN <<Pow2[23], e + 1>> ELSE <<m, e>>

\* long division: q * 2^e + r * 2^e / d is the quotient; bits are added
\* until the mantissa has 24 of them
RECURSIVE F32DivLoop(_, _, _, _)
F32DivLoop(q, r, d, e) ==
    IF q >= Pow2[23]
    THEN F32Normal(RoundNearestEven(q, r, d), e)
    ELSE IF 2 * r >= d
         THEN F32DivLoop(2 * q + 1, 2 * r - d, d, e - 1)
         ELSE F32DivLoop(2 * q, 2 * r, d, e - 1)

\* the f32 nearest to n / d, for integers 0 <= n < 2^24 and 0 < d < 2^24
F32Ratio(n, d) == IF n = 0 THEN F32Zero ELSE F32DivLoop(n \div d, n % d, d, 0)

\* prec as ColorComponent
F32FromInt(n) == F32Ratio(n, 1)

\* x / y in f32, y > 0
F32Div(x, y) ==
    IF x[1] = 0
    THEN F32Zero
    ELSE LET z == F32DivLoop(x[1] \div y[1], x[1] % y[1], y[1], 0)
         IN  <<z[1], z[2] + x[2] - y[2]>>

\* k * x in f32 for an integer-valued k >= 0 (k * mantissa stays below 2^31)
F32MulInt(k, x) ==
    IF k = 0 \/ x[1] = 0
    THEN F32Zero
    ELSE LET product == k * x[1]
             shift   == CHOOSE n \in 0..7 :
                            product < Pow2[24 + n] /\ (n = 0 \/ product >= Pow2[23 + n])
         IN  F32Normal(RoundNearestEven(product \div Pow2[shift], product % Pow2[shift],
                                        Pow2[shift]),
                       x[2] + shift)

\* DEFAULT_COLOR: RGB (0.5, 0.5, 0.5)
DEFAULT_COLOR == RGB(F32Ratio(1, 2), F32Ratio(1, 2), F32Ratio(1, 2))

\* f32::round of a value 0 <= x < 2^24 with a fraction: the nearest integer,
\* halves away from zero
round(x) ==
    IF x[1] = 0 \/ -x[2] >= 25
    THEN 0
    ELSE (x[1] + Pow2[-x[2] - 1]) \div Pow2[-x[2]]

\* get_color_interval: 1.0/(prec as ColorComponent), prec > 0
get_color_interval(prec) == F32Div(F32FromInt(1), F32FromInt(prec))

\* the closure returned by make_allowed_color_function(prec), applied to
\* color: <<allowed color, color position>>
make_allowed_color_function(prec, color) ==
    IF prec > 0
    THEN LET interval == get_color_interval(prec)
             r_k == round(F32Div(color[1], interval))
             g_k == round(F32Div(color[2], interval))
             b_k == round(F32Div(color[3], interval))
         IN  <<RGB(F32MulInt(r_k, interval), F32MulInt(g_k, interval),
                   F32MulInt(b_k, interval)),
               <<r_k, g_k, b_k>>>>
    ELSE <<DEFAULT_COLOR, <<0, 0, 0>>>>

\* ------------------------------------------------------------------------
\* Elevation source (src/src/input/dem/arcsec3.rs)
\* The data directory maps file names to tile files.  A tile file is
\* [exists, len, readable, fill, cells]: cells gives the two bytes
\* <<high, low>> of some cells of its grid, by flat index, and fill the two
\* bytes that every other cell holds.
\* ------------------------------------------------------------------------
DEM_SIZE == 1200
DEM_EDGE_SIZE == 1201
DEM_FILE_SIZE == 2884802
DEFAULT_NODATA == -32767
DEFAULT_SEA_LEVEL == 0

\* DemArc3SecOpts::new_opts
new_opts(nodata, sea_level) ==
    [nodata    |-> IF nodata = None THEN DEFAULT_NODATA ELSE Unwrap(nodata),
     sea_level |-> IF sea_level = None THEN DEFAULT_SEA_LEVEL ELSE Unwrap(sea_level)]

\* the decimal digits of n >= 0
RECURSIVE DecimalDigits(_)
DecimalDigits(n) == IF n < 10 THEN <<n>> ELSE Append(DecimalDigits(n \div 10), n % 10)

\* format!("{:0width$}", n) for n >= 0: the digits, padded with zeros on the left
format_padded(n, width) ==
    LET digits == DecimalDigits(n)
    IN  [i \in 1..(width - Len(digits)) |-> 0] \o digits

\* a file name without the hemispheres
file_name_OneHemisphere(tile_id) ==
    <<"N", format_padded(Abs(tile_id.lat), 2), "E", format_padded(Abs(tile_id.lon), 3), ".hgt">>

\* format!("{}{}.hgt", &vert_hemisphere, &horz_hemisphere)
file_name(tile_id) ==
    <<IF tile_id.lat >= 0 THEN "N" ELSE "S",
      IF tile_id.lat >= 0 THEN format_padded(tile_id.lat, 2) ELSE format_padded(-tile_id.lat, 2),
      IF tile_id.lon >= 0 THEN "E" ELSE "W",
      IF tile_id.lon >= 0 THEN format_padded(tile_id.lon, 3) ELSE format_padded(-tile_id.lon, 3),
      ".hgt">>

\* a conversion that takes the first byte as the low one
i16_from_be_LowFirst(high, low) ==
    IF 256 * low + high >= 32768 THEN 256 * low + high - 65536 ELSE 256 * low + high

\* i16::from_be of the value whose bytes in memory are high, low
i16_from_be(high, low) ==
    IF 256 * high + low >= 32768 THEN 256 * high + low - 65536 ELSE 256 * high + low

\* vec_u8_to_i16 of util.rs: a Vec is [data, capacity].  The buffer of the
\* byte vector is handed to the new vector as it is (Vec::from_raw_parts on
\* the pointer cast to *mut i16): with the system allocator it is aligned
\* for i16 and released whatever the layout, so that the values are those
\* read from the bytes.
vec_u8_to_i16(vec_u8) ==
    IF Len(vec_u8.data) % 2 # 0
    THEN [tag |-> "panic", val |-> <<>>,
          msg |-> <<"Odd length of vector data, reminder:", Len(vec_u8.data) % 2>>]
    ELSE Ok([data     |-> [k \in 1..(Len(vec_u8.data) \div 2) |->
                                i16_from_be(vec_u8.data[2 * k - 1], vec_u8.data[2 * k])],
             capacity |-> vec_u8.capacity \div 2])

\* vec_u8_to_i16(data_u8).into_boxed_slice() for the bytes of a tile file:
\* sample k is made of the bytes 2k and 2k+1
grid_u8_to_i16(p) ==
    [len   |-> p.len \div 2,
     fill  |-> i16_from_be(p.fill[1], p.fill[2]),
     cells |-> [index \in DOMAIN p.cells |-> i16_from_be(p.cells[index][1], p.cells[index][2])]]

\* DemArc3SecData::load
load(files, opts, tile_id) ==
    IF (tile_id.lon < -HalfTurn \/ tile_id.lon >= HalfTurn)
        \/ (tile_id.lat < -QuarterTurn \/ tile_id.lat >= QuarterTurn)
    THEN Err(<<"Invalid tile specification", tile_id>>)
    ELSE LET p == files[file_name(tile_id)]
         IN  IF p.exists
             THEN IF p.len # DEM_FILE_SIZE
                  THEN Err(<<"Invalid file size of", tile_id>>)
                  ELSE IF p.readable
                       THEN Ok(Some([lon_left |-> tile_id.lon, lat_bottom |-> tile_id.lat,
                                     tile |-> opts,
                                     dem_data |-> Some(grid_u8_to_i16(p))]))
                       ELSE Err(<<"Error reading tile", tile_id>>)
             ELSE Ok(None)

\* data[index] of the boxed slice
Sample(data, index) == IF index \in DOMAIN data.cells THEN data.cells[index] ELSE data.fill

\* the panic of an index outside the slice
IndexPanic == <<"index out of bounds", "panic">>

\* DemArc3SecData::get_dem_height: data[j*DEM_EDGE_SIZE+i]
get_dem_height(dem_tile, i, j) ==
    IF dem_tile.dem_data = None
    THEN None
    ELSE IF j * DEM_EDGE_SIZE + i \in 0..(DEM_EDGE_SIZE * DEM_EDGE_SIZE - 1)
         THEN Some(Sample(Unwrap(dem_tile.dem_data), j * DEM_EDGE_SIZE + i))
         ELSE IndexPanic

\* a calc_height that takes row j, counted from the bottom edge
calc_height_RowFromBottom(dem_tile, geo_point) ==
    LET lon == geo_point.lon
        lat == geo_point.lat
    IN  IF (RLess(lon, RInt(dem_tile.lon_left)) \/ ~RLess(lon, RInt(1 + dem_tile.lon_left)))
            \/ (RLess(lat, RInt(dem_tile.lat_bottom)) \/ ~RLess(lat, RInt(1 + dem_tile.lat_bottom)))
        THEN None
        ELSE LET x == RAdd(lon, RInt(-dem_tile.lon_left))
                 y == RAdd(lat, RInt(-dem_tile.lat_bottom))
                 i == Floor(RMul(x, RInt(DEM_SIZE)))
                 j == Floor(RMul(y, RInt(DEM_SIZE)))
                 h_int == get_dem_height(dem_tile, i, j)
             IN  IF h_int = IndexPanic
                 THEN IndexPanic
                 ELSE IF h_int = None
                 THEN Some(dem_tile.tile.sea_level)
                 ELSE IF Unwrap(h_int) = dem_tile.tile.nodata
                 THEN Some(dem_tile.tile.sea_level)
                 ELSE Some(Unwrap(h_int))

\* DemArc3SecData::calc_height
calc_height(dem_tile, geo_point) ==
    LET lon == geo_point.lon
        lat == geo_point.lat
    IN  IF (RLess(lon, RInt(dem_tile.lon_left)) \/ ~RLess(lon, RInt(1 + dem_tile.lon_left)))
            \/ (RLess(lat, RInt(dem_tile.lat_bottom)) \/ ~RLess(lat, RInt(1 + dem_tile.lat_bottom)))
        THEN None
        ELSE LET x == RAdd(lon, RInt(-dem_tile.lon_left))
                 y == RAdd(lat, RInt(-dem_tile.lat_bottom))
                 i == Floor(RMul(x, RInt(DEM_SIZE)))
                 j == Floor(RMul(y, RInt(DEM_SIZE)))
                 h_int == get_dem_height(dem_tile, i, 1200 - j)
             IN  IF h_int = IndexPanic
                 THEN IndexPanic
                 ELSE IF h_int = None
                 THEN Some(dem_tile.tile.sea_level)
                 ELSE IF Unwrap(h_int) = dem_tile.tile.nodata
                 THEN Some(dem_tile.tile.sea_level)
                 ELSE Some(Unwrap(h_int))

\* ------------------------------------------------------------------------
\* State
\* ------------------------------------------------------------------------
VARIABLES
    settings,       \* Settings: strategy (subcommand), model_type, model_size, jobs, sea_level
    files,          \* the tile files of settings.data_source_dir, by TileID
    pc,             \* position of the main thread
    result,         \* Result<(), String> of materialize
    TILE_COUNT,     \* static TILE_COUNT: AtomicUsize
    topo,           \* model_size, modelpoints, elements, geopoints_tiles of the pass
    color_table,    \* the rows behind the color_mapping closure
    mutex,          \* Mutex<Heights> / Mutex<MutexStruct>: owner, heights, colors
    wpc,            \* position of every worker thread
    wtile,          \* tile_id of every worker
    tile_heights,   \* the local Heights buffer of every worker
    tile_colors,    \* the local Colors buffer of every worker
    model,          \* the model handed to save
    stderr,         \* the lines written by eprintln!, as a bag (their order is not kept)
    exit_status,    \* status of the terminated process
    issued,         \* history: the TileIDs in the order TileID::next returned them
    gen             \* a topology generator run on its own

vars == <<settings, files, pc, result, TILE_COUNT, topo, color_table, mutex, wpc, wtile,
          tile_heights, tile_colors, model, stderr, exit_status, issued, gen>>

Workers == 1..MaxJobs

\* requested model sizes and sea levels of a sampling pass
ModelSizes == {Some(n) : n \in (MaxModelSize - 1)..MaxModelSize}
SeaLevels == {None, Some(2)}

\* ------------------------------------------------------------------------
\* Data directories: every tile file is one of five kinds
\* ------------------------------------------------------------------------
TileFile(kind) ==
    CASE kind = 0 -> [exists |-> TRUE, len |-> DEM_FILE_SIZE, readable |-> TRUE, fill |-> <<1, 1>>,
                     cells |-> EmptyMap]
      [] kind = 1 -> [exists |-> FALSE, len |-> 0, readable |-> FALSE, fill |-> <<0, 0>>,
                     cells |-> EmptyMap]
      [] kind = 2 -> [exists |-> TRUE, len |-> DEM_FILE_SIZE - 2, readable |-> TRUE, fill |-> <<1, 1>>,
                     cells |-> EmptyMap]
      [] kind = 3 -> [exists |-> TRUE, len |-> DEM_FILE_SIZE, readable |-> TRUE, fill |-> <<128, 1>>,
                     cells |-> EmptyMap]
      [] kind = 4 -> [exists |-> TRUE, len |-> DEM_FILE_SIZE, readable |-> FALSE, fill |-> <<0, 0>>,
                     cells |-> EmptyMap]

TileIndex(tile_id) == (tile_id.lon + HalfTurn) * HalfTurn + (tile_id.lat + QuarterTurn)

FileNames == {file_name(t) : t \in LegalTiles}

\* the tile a file of the directory is named for
TileOf(name) == CHOOSE t \in LegalTiles : file_name(t) = name

\* the directory whose files are file_of[t], for every tile t
Directory(file_of) == [name \in FileNames |-> file_of[TileOf(name)]]

DataDirs ==
    {Directory([t \in LegalTiles |-> TileFile((TileIndex(t) + shift) % 5)]) : shift \in 0..4}

\* ------------------------------------------------------------------------
\* Color profile files
\* ------------------------------------------------------------------------
ValidProfile == <<Skipped, Row(0, 0, 0, 7), Row(4, 5, 7, 0), Skipped, Row(6, 5, 5, 0)>>

InvalidProfiles == {
    <<Skipped, Skipped>>,
    <<Row(0, 0, 0, 7), Row(4, 11, 7, 0)>>,
    <<Row(0, 0, 0, 7), Row(4, 5, 7, 0), Row(4, 5, 5, 0)>>}

ColorProfiles ==
    {[readable |-> TRUE, lines |-> lines] : lines \in {ValidProfile} \cup InvalidProfiles}
    \cup {[readable |-> FALSE, lines |-> <<>>]}

\* ------------------------------------------------------------------------
\* Sampling pass (src/src/model/types.rs) and process (src/src/main.rs)
\* ------------------------------------------------------------------------
GenOff == [stage |-> "off"]

\* eprintln!: one more line on stderr
eprintln(lines, line) == lines (+) SetToBag({line})

\* materialize has not returned yet
Pending == [tag |-> "Pending", val |-> <<>>, msg |-> <<>>]

\* the mutex before Mutex::new and after into_inner
NoMutex == [state |-> "absent", owner |-> None, heights |-> <<>>, colors |-> <<>>]
TakenMutex == [state |-> "taken", owner |-> None, heights |-> <<>>, colors |-> <<>>]

Init ==
    /\ settings \in [strategy : {"Obj", "X3D"}, model_type : {"texture", "color"},
                     model_size : ModelSizes, jobs : 1..MaxJobs, sea_level : SeaLevels]
    /\ files \in DataDirs
    /\ pc = "main"
    /\ result = Pending
    /\ TILE_COUNT = 0
    /\ topo = None
    /\ color_table = <<>>
    /\ mutex = NoMutex
    /\ wpc = [w \in Workers |-> "unspawned"]
    /\ wtile = [w \in Workers |-> None]
    /\ tile_heights = [w \in Workers |-> EmptyMap]
    /\ tile_colors = [w \in Workers |-> EmptyMap]
    /\ model = None
    /\ stderr = EmptyBag
    /\ exit_status = None
    /\ issued = <<>>
    /\ gen = GenOff

\* make_data_source_opts(settings.nodata, settings.sea_level, ..); nodata is
\* read from a key that never holds an integer, so it is always None
Opts == new_opts(None, settings.sea_level)

\* the keys pre-seeded into Heights and Colors: for k in 0..(2*(model_size+1)*(model_size+1)-1)
PreSeedKeys(model_size) == 0..((2 * (model_size + 1) * (model_size + 1) - 1) - 1)

\* the value pre-seeded into Heights: heights.insert(k, 0.0)
PreSeedHeight == 0

\* model_size, modelpoints, elements and geopoints_tiles as computed at the
\* head of create_with_texture and create_with_color
Topology(strategy, requested) ==
    LET model_size == make_valid_model_size(strategy, requested)
        spacing    == define_spacing(model_size)
        mp         == create_modelpoints(strategy, model_size, spacing)
    IN  [model_size      |-> model_size,
         modelpoints     |-> [geopoints |-> mp.geopoints, points_map_opt |-> mp.points_map_opt],
         elements        |-> mp.elements,
         geopoints_tiles |-> create_geopoints_tiles(mp.geopoints)]

\* materialize up to the dispatch on the subcommand: get_settings_yaml and
\* Settings::make_settings succeed or fail
Materialize ==
    /\ pc = "main"
    /\ \E settings_ok \in BOOLEAN :
        IF settings_ok
        THEN /\ pc' = "create"
             /\ UNCHANGED result
        ELSE /\ pc' = "materialized"
             /\ result' = Err(<<"settings">>)
    /\ UNCHANGED <<settings, files, TILE_COUNT, topo, color_table, mutex, wpc, wtile,
                   tile_heights, tile_colors, model, stderr, exit_status, issued, gen>>

\* the workers spawned by thread::scope: for _job in 1..=settings.jobs
Spawned == [w \in Workers |-> IF w <= settings.jobs THEN "next" ELSE "unspawned"]

\* create_with_texture up to the spawning of the workers
CreateWithTexture ==
    /\ pc = "create"
    /\ settings.model_type = "texture"
    /\ \E options_ok \in BOOLEAN :
        IF ~options_ok
        THEN /\ pc' = "materialized"
             /\ result' = Err(<<"options_check">>)
             /\ UNCHANGED <<topo, mutex, wpc>>
        ELSE LET t == Topology(settings.strategy, settings.model_size)
             IN  /\ topo' = Some(t)
                 /\ mutex' = [state |-> "live", owner |-> None,
                              heights |-> [k \in PreSeedKeys(t.model_size) |-> PreSeedHeight],
                              colors |-> <<>>]
                 /\ wpc' = Spawned
                 /\ pc' = "scope"
                 /\ UNCHANGED result
    /\ UNCHANGED <<settings, files, TILE_COUNT, color_table, wtile, tile_heights, tile_colors,
                   model, stderr, exit_status, issued, gen>>

\* a create_with_color that opens the scope before it looks at the color profile
CreateWithColor_SpawnFirst ==
    /\ pc = "create"
    /\ settings.model_type = "color"
    /\ \E color_profile_file \in ColorProfiles :
        LET t  == Topology(settings.strategy, settings.model_size)
            cm == get_color_mapping(color_profile_file)
        IN  /\ topo' = Some(t)
            /\ mutex' = [state |-> "live", owner |-> None,
                         heights |-> [k \in PreSeedKeys(t.model_size) |-> PreSeedHeight],
                         colors |-> <<>>]
            /\ wpc' = Spawned
            /\ IF cm.tag = "Err"
               THEN /\ pc' = "materialized"
                    /\ result' = Err(<<"Can't find color profile file", cm.msg>>)
                    /\ UNCHANGED color_table
               ELSE /\ pc' = "scope"
                    /\ color_table' = cm.val
                    /\ UNCHANGED result
    /\ UNCHANGED <<settings, files, TILE_COUNT, wtile, tile_heights, tile_colors,
                   model, stderr, exit_status, issued, gen>>

\* create_with_color up to the spawning of the workers
CreateWithColor ==
    /\ pc = "create"
    /\ settings.model_type = "color"
    /\ \E options_ok \in BOOLEAN, parameter_ok \in BOOLEAN, color_profile_file \in ColorProfiles :
        IF ~options_ok
        THEN /\ pc' = "materialized"
             /\ result' = Err(<<"options_check">>)
             /\ UNCHANGED <<topo, mutex, wpc, color_table>>
        ELSE IF ~parameter_ok
        THEN /\ pc' = "materialized"
             /\ result' = Err(<<"invalid 'color_profile_file' parameter in the settings file">>)
             /\ UNCHANGED <<topo, mutex, wpc, color_table>>
        ELSE LET t  == Topology(settings.strategy, settings.model_size)
                 cm == get_color_mapping(color_profile_file)
             IN  IF cm.tag = "Err"
                 THEN /\ pc' = "materialized"
                      /\ result' = Err(<<"Can't find color profile file", cm.msg>>)
                      /\ UNCHANGED <<topo, mutex, wpc, color_table>>
                 ELSE /\ topo' = Some(t)
                      /\ color_table' = cm.val
                      /\ mutex' = [state |-> "live", owner |-> None,
                                   heights |-> [k \in PreSeedKeys(t.model_size) |-> PreSeedHeight],
                                   colors |-> [k \in PreSeedKeys(t.model_size) |->
                                                    color_mapping(cm.val, Opts.sea_level)]]
                      /\ wpc' = Spawned
                      /\ pc' = "scope"
                      /\ UNCHANGED result
    /\ UNCHANGED <<settings, files, TILE_COUNT, wtile, tile_heights, tile_colors,
                   model, stderr, exit_status, issued, gen>>

\* a fetch whose counter gives every TileID to two callers
WorkerNext_Twice(w) ==
    /\ wpc[w] = "next"
    /\ LET count == TILE_COUNT
           next  == TileID_next(count \div 2, get_max_number_of_tiles)
       IN  /\ TILE_COUNT' = count + 1
           /\ IF next = None
              THEN /\ wpc' = [wpc EXCEPT ![w] = "exited"]
                   /\ wtile' = [wtile EXCEPT ![w] = None]
                   /\ UNCHANGED issued
              ELSE /\ issued' = Append(issued, Unwrap(next))
                   /\ wtile' = [wtile EXCEPT ![w] = next]
                   /\ wpc' = [wpc EXCEPT ![w] =
                                IF Unwrap(next) \in DOMAIN Unwrap(topo).geopoints_tiles
                                THEN "load" ELSE "next"]
    /\ UNCHANGED <<settings, files, pc, result, topo, color_table, mutex,
                   tile_heights, tile_colors, model, stderr, exit_status, gen>>

\* while let Some(tile_id) = TileID::next(tiles_limit), then geopoints_tiles.get(&tile_id)
WorkerNext(w) ==
    /\ wpc[w] = "next"
    /\ LET count == TILE_COUNT
           next  == TileID_next(count, get_max_number_of_tiles)
       IN  /\ TILE_COUNT' = count + 1
           /\ IF next = None
              THEN /\ wpc' = [wpc EXCEPT ![w] = "exited"]
                   /\ wtile' = [wtile EXCEPT ![w] = None]
                   /\ UNCHANGED issued
              ELSE /\ issued' = Append(issued, Unwrap(next))
                   /\ wtile' = [wtile EXCEPT ![w] = next]
                   /\ wpc' = [wpc EXCEPT ![w] =
                                IF Unwrap(next) \in DOMAIN Unwrap(topo).geopoints_tiles
                                THEN "load" ELSE "next"]
    /\ UNCHANGED <<settings, files, pc, result, topo, color_table, mutex,
                   tile_heights, tile_colors, model, stderr, exit_status, gen>>

\* for (k, geo_point) in tile_geopoints { match dem_tile.calc_height(geo_point) {..} }
\* from the n-th pair of the group on; acc is tile_heights
RECURSIVE SampleLoop(_, _, _, _)
SampleLoop(dem_tile, tile_geopoints, n, acc) ==
    IF n > Len(tile_geopoints)
    THEN acc
    ELSE SampleLoop(dem_tile, tile_geopoints, n + 1,
            IF calc_height(dem_tile, tile_geopoints[n][2]) = None
            THEN acc
            ELSE Insert(acc, tile_geopoints[n][1],
                        Unwrap(calc_height(dem_tile, tile_geopoints[n][2]))))

\* the tile_heights a worker has filled when it reaches mutex.lock()
SampleHeights(dem_tile, tile_geopoints) == SampleLoop(dem_tile, tile_geopoints, 1, EmptyMap)

\* a worker that leaves its loop when a tile fails to load
WorkerLoad_AbortOnError(w) ==
    /\ wpc[w] = "load"
    /\ \E load_result \in {load(files, Opts, Unwrap(wtile[w]))} :
           IF load_result.tag = "Err"
           THEN /\ stderr' = eprintln(stderr, load_result.msg)
                /\ wpc' = [wpc EXCEPT ![w] = "exited"]
                /\ UNCHANGED <<tile_heights, tile_colors>>
           ELSE IF load_result.val = None
           THEN /\ wpc' = [wpc EXCEPT ![w] = "next"]
                /\ UNCHANGED <<stderr, tile_heights, tile_colors>>
           ELSE LET hs == SampleHeights(Unwrap(load_result.val),
                                        Unwrap(topo).geopoints_tiles[Unwrap(wtile[w])])
                IN  /\ tile_heights' = [tile_heights EXCEPT ![w] = hs]
                    /\ tile_colors' = [tile_colors EXCEPT ![w] =
                            IF settings.model_type = "color"
                            THEN [k \in DOMAIN tile_heights'[w] |->
                                    color_mapping(color_table, tile_heights'[w][k])]
                            ELSE EmptyMap]
                    /\ wpc' = [wpc EXCEPT ![w] = "lock"]
                    /\ UNCHANGED stderr
    /\ UNCHANGED <<settings, files, pc, result, TILE_COUNT, topo, color_table, mutex, wtile,
                   model, exit_status, issued, gen>>

\* load_tile_data and the match on its result, up to mutex.lock()
WorkerLoad(w) ==
    /\ wpc[w] = "load"
    /\ \E load_result \in {load(files, Opts, Unwrap(wtile[w]))} :
           IF load_result.tag = "Err"
           THEN /\ stderr' = eprintln(stderr, load_result.msg)
                /\ wpc' = [wpc EXCEPT ![w] = "next"]
                /\ UNCHANGED <<tile_heights, tile_colors>>
           ELSE IF load_result.val = None
           THEN /\ wpc' = [wpc EXCEPT ![w] = "next"]
                /\ UNCHANGED <<stderr, tile_heights, tile_colors>>
           ELSE LET hs == SampleHeights(Unwrap(load_result.val),
                                        Unwrap(topo).geopoints_tiles[Unwrap(wtile[w])])
                IN  /\ tile_heights' = [tile_heights EXCEPT ![w] = hs]
                    /\ tile_colors' = [tile_colors EXCEPT ![w] =
                            IF settings.model_type = "color"
                            THEN [k \in DOMAIN tile_heights'[w] |->
                                    color_mapping(color_table, tile_heights'[w][k])]
                            ELSE EmptyMap]
                    /\ wpc' = [wpc EXCEPT ![w] = "lock"]
                    /\ UNCHANGED stderr
    /\ UNCHANGED <<settings, files, pc, result, TILE_COUNT, topo, color_table, mutex, wtile,
                   model, exit_status, issued, gen>>

\* a lock that is granted while another worker holds it
WorkerLock_NoWait(w) ==
    /\ wpc[w] = "lock"
    /\ mutex' = [mutex EXCEPT !.owner = Some(w)]
    /\ wpc' = [wpc EXCEPT ![w] = "append_heights"]
    /\ UNCHANGED <<settings, files, pc, result, TILE_COUNT, topo, color_table, wtile,
                   tile_heights, tile_colors, model, stderr, exit_status, issued, gen>>

\* mutex.lock().unwrap()
WorkerLock(w) ==
    /\ wpc[w] = "lock"
    /\ mutex.owner = None
    /\ mutex' = [mutex EXCEPT !.owner = Some(w)]
    /\ wpc' = [wpc EXCEPT ![w] = "append_heights"]
    /\ UNCHANGED <<settings, files, pc, result, TILE_COUNT, topo, color_table, wtile,
                   tile_heights, tile_colors, model, stderr, exit_status, issued, gen>>

\* a merge that keeps the entry already in self when both maps hold a key
BTreeAppend_KeepSelf(self, other) ==
    [k \in (DOMAIN self) \cup (DOMAIN other) |-> IF k \in DOMAIN self THEN self[k] ELSE other[k]]

\* BTreeMap::append: every entry of other moves into self, other is left empty
BTreeAppend(self, other) ==
    [k \in (DOMAIN self) \cup (DOMAIN other) |-> IF k \in DOMAIN other THEN other[k] ELSE self[k]]

\* a merge of the heights that gives the lock back before the colors are merged
WorkerAppendHeights_Unlock(w) ==
    /\ wpc[w] = "append_heights"
    /\ mutex' = [mutex EXCEPT !.heights = BTreeAppend(mutex.heights, tile_heights[w]),
                             !.owner = None]
    /\ tile_heights' = [tile_heights EXCEPT ![w] = EmptyMap]
    /\ wpc' = [wpc EXCEPT ![w] = IF settings.model_type = "color" THEN "append_colors" ELSE "drop"]
    /\ UNCHANGED <<settings, files, pc, result, TILE_COUNT, topo, color_table, wtile,
                   tile_colors, model, stderr, exit_status, issued, gen>>

\* heights.append(&mut tile_heights)
WorkerAppendHeights(w) ==
    /\ wpc[w] = "append_heights"
    /\ mutex' = [mutex EXCEPT !.heights = BTreeAppend(mutex.heights, tile_heights[w])]
    /\ tile_heights' = [tile_heights EXCEPT ![w] = EmptyMap]
    /\ wpc' = [wpc EXCEPT ![w] = IF settings.model_type = "color" THEN "append_colors" ELSE "drop"]
    /\ UNCHANGED <<settings, files, pc, result, TILE_COUNT, topo, color_table, wtile,
                   tile_colors, model, stderr, exit_status, issued, gen>>

\* colors.append(&mut tile_colors)
WorkerAppendColors(w) ==
    /\ wpc[w] = "append_colors"
    /\ mutex' = [mutex EXCEPT !.colors = BTreeAppend(mutex.colors, tile_colors[w])]
    /\ tile_colors' = [tile_colors EXCEPT ![w] = EmptyMap]
    /\ wpc' = [wpc EXCEPT ![w] = "drop"]
    /\ UNCHANGED <<settings, files, pc, result, TILE_COUNT, topo, color_table, wtile,
                   tile_heights, model, stderr, exit_status, issued, gen>>

\* drop(heights) / drop(ms), then the next iteration of the while loop
WorkerDrop(w) ==
    /\ wpc[w] = "drop"
    /\ mutex' = [mutex EXCEPT !.owner = None]
    /\ wpc' = [wpc EXCEPT ![w] = "next"]
    /\ UNCHANGED <<settings, files, pc, result, TILE_COUNT, topo, color_table, wtile,
                   tile_heights, tile_colors, model, stderr, exit_status, issued, gen>>

\* a scope that ends without joining its workers
Join_NoWait ==
    /\ pc = "scope"
    /\ \E build_ok \in BOOLEAN :
        IF build_ok
        THEN /\ model' = Some([heights |-> mutex.heights, colors |-> mutex.colors,
                               modelpoints |-> Unwrap(topo).modelpoints,
                               elements |-> Unwrap(topo).elements])
             /\ pc' = "save"
             /\ UNCHANGED result
        ELSE /\ model' = None
             /\ pc' = "materialized"
             /\ result' = Err(<<"build_model">>)
    /\ mutex' = TakenMutex
    /\ UNCHANGED <<settings, files, TILE_COUNT, topo, color_table, wpc, wtile,
                   tile_heights, tile_colors, stderr, exit_status, issued, gen>>

\* the end of thread::scope (every spawned worker joined), mutex.into_inner()
\* and build_texture_model / build_color_model
Join ==
    /\ pc = "scope"
    /\ \A w \in Workers : wpc[w] \in {"exited", "unspawned"}
    /\ \E build_ok \in BOOLEAN :
        IF build_ok
        THEN /\ model' = Some([heights |-> mutex.heights, colors |-> mutex.colors,
                               modelpoints |-> Unwrap(topo).modelpoints,
                               elements |-> Unwrap(topo).elements])
             /\ pc' = "save"
             /\ UNCHANGED result
        ELSE /\ model' = None
             /\ pc' = "materialized"
             /\ result' = Err(<<"build_model">>)
    /\ mutex' = TakenMutex
    /\ UNCHANGED <<settings, files, TILE_COUNT, topo, color_table, wpc, wtile,
                   tile_heights, tile_colors, stderr, exit_status, issued, gen>>

\* Model::save of the built model
Save ==
    /\ pc = "save"
    /\ \E save_ok \in BOOLEAN :
        result' = IF save_ok THEN Ok(None) ELSE Err(<<"save">>)
    /\ pc' = "materialized"
    /\ UNCHANGED <<settings, files, TILE_COUNT, topo, color_table, mutex, wpc, wtile,
                   tile_heights, tile_colors, model, stderr, exit_status, issued, gen>>

\* main: materialize(..).inspect_err(|err| eprintln!("Error: {err}")).unwrap_or(())
\* and the return from main
MainReturn ==
    /\ pc = "materialized"
    /\ stderr' = IF result.tag = "Err" THEN eprintln(stderr, <<"Error:", result.msg>>) ELSE stderr
    /\ exit_status' = Some(0)
    /\ pc' = "exited"
    /\ UNCHANGED <<settings, files, result, TILE_COUNT, topo, color_table, mutex, wpc, wtile,
                   tile_heights, tile_colors, model, issued, gen>>

Worker(w) ==
    \/ WorkerNext(w)
    \/ WorkerLoad(w)
    \/ WorkerLock(w)
    \/ WorkerAppendHeights(w)
    \/ WorkerAppendColors(w)
    \/ WorkerDrop(w)

Next ==
    \/ Materialize
    \/ CreateWithTexture
    \/ CreateWithColor
    \/ \E w \in Workers : Worker(w)
    \/ Join
    \/ Save
    \/ MainReturn

Spec == Init /\ [][Next]_vars

\* The same program over one data directory, with the scheduling the
\* operating system gives: a thread that can take a step is not suspended
\* forever (every load returns, a freed mutex is handed to a waiter while the
\* others are blocked or gone), and the main thread leaves thread::scope once
\* every worker is joined.
InitFair ==
    /\ Init
    /\ settings.sea_level = None
    /\ \A t \in LegalTiles : files[file_name(t)] = TileFile(TileIndex(t) % 5)

Fairness ==
    /\ \A w \in Workers : WF_vars(Worker(w))
    /\ WF_vars(Join)

SpecFair == InitFair /\ [][Next]_vars /\ Fairness

\* ------------------------------------------------------------------------
\* Two passes in one process: when create_with_texture or create_with_color
\* has returned the model, the caller calls it once more with the same
\* settings.  The locals of the first call are gone; the static TILE_COUNT
\* is the one of the process.
\* ------------------------------------------------------------------------
Again == [stage |-> "again"]

\* a second call that starts with the counter at zero
PassAgain_ResetCounter ==
    /\ pc = "materialized"
    /\ mutex.state = "taken"
    /\ gen = GenOff
    /\ gen' = Again
    /\ pc' = "create"
    /\ result' = Pending
    /\ topo' = None
    /\ color_table' = <<>>
    /\ mutex' = NoMutex
    /\ wpc' = [w \in Workers |-> "unspawned"]
    /\ wtile' = [w \in Workers |-> None]
    /\ tile_heights' = [w \in Workers |-> EmptyMap]
    /\ tile_colors' = [w \in Workers |-> EmptyMap]
    /\ model' = None
    /\ TILE_COUNT' = 0
    /\ UNCHANGED <<settings, files, stderr, exit_status, issued>>

\* the second call of create_with_texture / create_with_color
PassAgain ==
    /\ pc = "materialized"
    /\ mutex.state = "taken"
    /\ gen = GenOff
    /\ gen' = Again
    /\ pc' = "create"
    /\ result' = Pending
    /\ topo' = None
    /\ color_table' = <<>>
    /\ mutex' = NoMutex
    /\ wpc' = [w \in Workers |-> "unspawned"]
    /\ wtile' = [w \in Workers |-> None]
    /\ tile_heights' = [w \in Workers |-> EmptyMap]
    /\ tile_colors' = [w \in Workers |-> EmptyMap]
    /\ model' = None
    /\ UNCHANGED <<settings, files, TILE_COUNT, stderr, exit_status, issued>>

NextAgain ==
    \/ Next
    \/ PassAgain

SpecAgain == InitFair /\ [][NextAgain]_vars

\* ------------------------------------------------------------------------
\* A topology generator run on its own: make_valid_model_size,
\* define_spacing and create_modelpoints, then create_geopoints_tiles
\* ------------------------------------------------------------------------
GenRequests == {None} \cup {Some(n) : n \in 0..MaxGenSize}

IdleSettings == [strategy |-> "Obj", model_type |-> "texture", model_size |-> None,
                 jobs |-> 1, sea_level |-> None]

InitGen ==
    /\ gen \in {[stage |-> "request", strategy |-> strategy, request |-> request,
                 model_size |-> 0, geopoints |-> <<>>, points_map_opt |-> None,
                 elements |-> <<>>, geopoints_tiles |-> <<>>,
                 texture_coordinates |-> <<>>, faces |-> Pending] :
                    strategy \in {"Obj", "X3D"}, request \in GenRequests}
    /\ settings = IdleSettings
    /\ files \in {Directory([t \in LegalTiles |-> TileFile(1)])}
    /\ pc = "off"
    /\ result = Pending
    /\ TILE_COUNT = 0
    /\ topo = None
    /\ color_table = <<>>
    /\ mutex = NoMutex
    /\ wpc = [w \in Workers |-> "unspawned"]
    /\ wtile = [w \in Workers |-> None]
    /\ tile_heights = [w \in Workers |-> EmptyMap]
    /\ tile_colors = [w \in Workers |-> EmptyMap]
    /\ model = None
    /\ stderr = EmptyBag
    /\ exit_status = None
    /\ issued = <<>>

MainVars == <<settings, files, pc, result, TILE_COUNT, topo, color_table, mutex, wpc, wtile,
              tile_heights, tile_colors, model, stderr, exit_status, issued>>

\* Self::make_valid_model_size(settings.model_size)
GenNormalize ==
    /\ gen.stage = "request"
    /\ gen' = [gen EXCEPT !.stage = "sized",
                          !.model_size = make_valid_model_size(gen.strategy, gen.request)]
    /\ UNCHANGED MainVars

\* Self::define_spacing(model_size) and Self::create_modelpoints(model_size, spacing)
GenCreateModelpoints ==
    /\ gen.stage = "sized"
    /\ LET mp == create_modelpoints(gen.strategy, gen.model_size, define_spacing(gen.model_size))
       IN  gen' = [gen EXCEPT !.stage = "points",
                              !.geopoints = mp.geopoints,
                              !.points_map_opt = mp.points_map_opt,
                              !.elements = mp.elements]
    /\ UNCHANGED MainVars

\* Self::create_geopoints_tiles(&opts, &modelpoints.geopoints)
GenCreateGeopointsTiles ==
    /\ gen.stage = "points"
    /\ gen' = [gen EXCEPT !.stage = "tiled",
                          !.geopoints_tiles = create_geopoints_tiles(gen.geopoints)]
    /\ UNCHANGED MainVars

\* Self::create_texture_coordinates(model_size)
GenCreateTextureCoordinates ==
    /\ gen.stage = "tiled"
    /\ gen' = [gen EXCEPT !.stage = "textured",
                          !.texture_coordinates =
                                create_texture_coordinates(gen.strategy, gen.model_size)]
    /\ UNCHANGED MainVars

\* Obj::save of the generated topology: the element section
GenSaveElements ==
    /\ gen.stage = "textured"
    /\ gen.strategy = "Obj"
    /\ gen' = [gen EXCEPT !.stage = "saved",
                          !.faces = ObjSaveElements(gen.points_map_opt, gen.elements)]
    /\ UNCHANGED MainVars

NextGen ==
    \/ GenNormalize
    \/ GenCreateModelpoints
    \/ GenCreateGeopointsTiles
    \/ GenCreateTextureCoordinates
    \/ GenSaveElements

SpecGen == InitGen /\ [][NextGen]_vars

\* ------------------------------------------------------------------------
\* The color table alone: a color profile of at most MaxLines lines is
\* read, the table is built and the mapping is asked for an elevation.
\* ------------------------------------------------------------------------
CommentLine == <<Text, WhiteSpace>> \o Row(1, 5, 5, 5)
IndentedLine == <<WhiteSpace>> \o Row(1, 5, 5, 5)
ShortLine == <<Digits(1), WhiteSpace, Decimal(5), WhiteSpace, Decimal(5)>>

ProfileLines == {
    Skipped, CommentLine, IndentedLine, ShortLine,
    Row(0, 0, 0, 7),
    Row(2, 5, 10, 0),
    Row(5, 10, 5, 5) \o <<WhiteSpace>>,
    <<Digits(6), WhiteSpace, WhiteSpace, Digits(1), WhiteSpace, Digits(0), WhiteSpace, Decimal(5)>>,
    Row(2, 11, 12, 0),
    Row(3, 0, 11, 0),
    Row(0, 0, 5, 11)}

RECURSIVE Profiles(_)
Profiles(len) ==
    IF len = 0
    THEN {<<>>}
    ELSE Profiles(len - 1) \cup
         {Append(file_content, line) : file_content \in Profiles(len - 1), line \in ProfileLines}

\* HeightInt is i16
MinHeightInt == -32768
MaxHeightInt == 32767

Elevations == {MinHeightInt, MaxHeightInt} \cup (-1..7)

InitColor ==
    /\ gen \in {[stage |-> "profile", file_content |-> file_content, table |-> Pending,
                 h |-> 0, color |-> <<>>] : file_content \in Profiles(MaxLines)}
    /\ settings = IdleSettings
    /\ files \in {Directory([t \in LegalTiles |-> TileFile(1)])}
    /\ pc = "off"
    /\ result = Pending
    /\ TILE_COUNT = 0
    /\ topo = None
    /\ color_table = <<>>
    /\ mutex = NoMutex
    /\ wpc = [w \in Workers |-> "unspawned"]
    /\ wtile = [w \in Workers |-> None]
    /\ tile_heights = [w \in Workers |-> EmptyMap]
    /\ tile_colors = [w \in Workers |-> EmptyMap]
    /\ model = None
    /\ stderr = EmptyBag
    /\ exit_status = None
    /\ issued = <<>>

\* build_color_table(file_content)
ColorBuildTable ==
    /\ gen.stage = "profile"
    /\ gen' = [gen EXCEPT !.stage = "table", !.table = build_color_table(gen.file_content)]
    /\ UNCHANGED MainVars

\* the closure of get_color_mapping called with an elevation
ColorLookup ==
    /\ gen.stage = "table"
    /\ gen.table.tag = "Ok"
    /\ \E h \in Elevations :
            gen' = [gen EXCEPT !.stage = "lookup", !.h = h,
                               !.color = color_mapping(gen.table.val, h)]
    /\ UNCHANGED MainVars

NextColor ==
    \/ ColorBuildTable
    \/ ColorLookup

SpecColor == InitColor /\ [][NextColor]_vars

\* ------------------------------------------------------------------------
\* The allowed colors alone: a color with channels in [0,1] and a color
\* precision of at most MaxPrecision are given to the function returned by
\* make_allowed_color_function.
\* ------------------------------------------------------------------------
\* 0.0, 0.25, 0.35, 0.5, 0.7, 1.0 as parsed to f32
ChannelValues ==
    {F32Ratio(0, 1), F32Ratio(1, 4), F32Ratio(7, 20), F32Ratio(1, 2), F32Ratio(7, 10),
     F32Ratio(1, 1)}

InitAllowed ==
    /\ gen \in {[stage |-> "color", color |-> RGB(r, g, b), color_precision |-> prec,
                 allowed |-> <<>>] :
                    r \in ChannelValues, g \in ChannelValues, b \in ChannelValues,
                    prec \in 0..MaxPrecision}
    /\ settings = IdleSettings
    /\ files \in {Directory([t \in LegalTiles |-> TileFile(1)])}
    /\ pc = "off"
    /\ result = Pending
    /\ TILE_COUNT = 0
    /\ topo = None
    /\ color_table = <<>>
    /\ mutex = NoMutex
    /\ wpc = [w \in Workers |-> "unspawned"]
    /\ wtile = [w \in Workers |-> None]
    /\ tile_heights = [w \in Workers |-> EmptyMap]
    /\ tile_colors = [w \in Workers |-> EmptyMap]
    /\ model = None
    /\ stderr = EmptyBag
    /\ exit_status = None
    /\ issued = <<>>

\* allowed_color_func(*color), with
\* allowed_color_func = make_allowed_color_function(self.color_precision)
ColorAllowed ==
    /\ gen.stage = "color"
    /\ gen' = [gen EXCEPT !.stage = "allowed",
                          !.allowed = make_allowed_color_function(gen.color_precision, gen.color)]
    /\ UNCHANGED MainVars

NextAllowed == ColorAllowed

SpecAllowed == InitAllowed /\ [][NextAllowed]_vars

\* ------------------------------------------------------------------------
\* The elevation of a point alone: a tile is loaded from a file whose grid
\* has marked cells, and calc_height is asked for a point in or around it.
\* ------------------------------------------------------------------------
\* rows and columns of the marked cells
MarkedLines == {0, 1, 600, 1199, 1200}

\* the file of a grid whose marked cells hold distinct samples, the cell in
\* the middle 155
GridFile ==
    [exists |-> TRUE, len |-> DEM_FILE_SIZE, readable |-> TRUE, fill |-> <<0, 1>>,
     cells |-> [index \in {r * DEM_EDGE_SIZE + c : r \in MarkedLines, c \in MarkedLines} |->
                    <<0, 100 + 10 * ((index \div DEM_EDGE_SIZE) % 7) + ((index % DEM_EDGE_SIZE) % 7)>>]]

\* offsets from the lower left corner of a tile, in cells / CellParts
Offsets ==
    {-1, 0, 1, CellParts * 600, CellParts * 600 + 1, CellParts * 1200 - 1, CellParts * 1200}

InitDem ==
    /\ gen \in {[stage |-> "point",
                 dem_tile |-> Unwrap(load(Directory([t \in LegalTiles |-> GridFile]),
                                          new_opts(nodata, sea_level), tile_id).val),
                 geo_point |-> [lon |-> Rat(tile_id.lon * CellParts * 1200 + a, CellParts * 1200),
                                lat |-> Rat(tile_id.lat * CellParts * 1200 + b, CellParts * 1200)],
                 height |-> None] :
                    tile_id \in LegalTiles, a \in Offsets, b \in Offsets,
                    nodata \in {None, Some(155)}, sea_level \in {None, Some(2)}}
    /\ settings = IdleSettings
    /\ files \in {Directory([t \in LegalTiles |-> GridFile])}
    /\ pc = "off"
    /\ result = Pending
    /\ TILE_COUNT = 0
    /\ topo = None
    /\ color_table = <<>>
    /\ mutex = NoMutex
    /\ wpc = [w \in Workers |-> "unspawned"]
    /\ wtile = [w \in Workers |-> None]
    /\ tile_heights = [w \in Workers |-> EmptyMap]
    /\ tile_colors = [w \in Workers |-> EmptyMap]
    /\ model = None
    /\ stderr = EmptyBag
    /\ exit_status = None
    /\ issued = <<>>

\* dem_tile.calc_height(geo_point)
DemCalcHeight ==
    /\ gen.stage = "point"
    /\ gen' = [gen EXCEPT !.stage = "height",
                          !.height = calc_height(gen.dem_tile, gen.geo_point)]
    /\ UNCHANGED MainVars

NextDem == DemCalcHeight

SpecDem == InitDem /\ [][NextDem]_vars

\* ------------------------------------------------------------------------
\* The load of a tile alone: a TileID in or around the legal coordinate
\* space is loaded from a data directory.
\* ------------------------------------------------------------------------
TilesAround ==
    {TileID(lon, lat) : lon \in (-HalfTurn - 1)..HalfTurn, lat \in (-QuarterTurn - 1)..QuarterTurn}

InitLoad ==
    /\ gen \in {[stage |-> "tile", tile_id |-> tile_id, opts |-> new_opts(None, sea_level),
                 loaded |-> Pending] : tile_id \in TilesAround, sea_level \in SeaLevels}
    /\ settings = IdleSettings
    /\ files \in DataDirs
    /\ pc = "off"
    /\ result = Pending
    /\ TILE_COUNT = 0
    /\ topo = None
    /\ color_table = <<>>
    /\ mutex = NoMutex
    /\ wpc = [w \in Workers |-> "unspawned"]
    /\ wtile = [w \in Workers |-> None]
    /\ tile_heights = [w \in Workers |-> EmptyMap]
    /\ tile_colors = [w \in Workers |-> EmptyMap]
    /\ model = None
    /\ stderr = EmptyBag
    /\ exit_status = None
    /\ issued = <<>>

\* DS::TD::load(&data_source_dir, &opts, &tile_id)
LoadTile ==
    /\ gen.stage = "tile"
    /\ gen' = [gen EXCEPT !.stage = "loaded", !.loaded = load(files, gen.opts, gen.tile_id)]
    /\ UNCHANGED MainVars

NextLoad == LoadTile

SpecLoad == InitLoad /\ [][NextLoad]_vars

\* ------------------------------------------------------------------------
\* The conversion of bytes alone: a byte vector of at most MaxBytes bytes is
\* given to vec_u8_to_i16.
\* ------------------------------------------------------------------------
Bytes == {0, 1, 127, 128, 255}

RECURSIVE ByteVectors(_)
ByteVectors(len) ==
    IF len = 0
    THEN {<<>>}
    ELSE ByteVectors(len - 1) \cup
         {Append(data, byte) : data \in ByteVectors(len - 1), byte \in Bytes}

InitBytes ==
    /\ gen \in {[stage |-> "bytes", vec_u8 |-> [data |-> data, capacity |-> Len(data) + spare],
                 vec_i16 |-> Pending] : data \in ByteVectors(MaxBytes), spare \in 0..1}
    /\ settings = IdleSettings
    /\ files \in {Directory([t \in LegalTiles |-> TileFile(1)])}
    /\ pc = "off"
    /\ result = Pending
    /\ TILE_COUNT = 0
    /\ topo = None
    /\ color_table = <<>>
    /\ mutex = NoMutex
    /\ wpc = [w \in Workers |-> "unspawned"]
    /\ wtile = [w \in Workers |-> None]
    /\ tile_heights = [w \in Workers |-> EmptyMap]
    /\ tile_colors = [w \in Workers |-> EmptyMap]
    /\ model = None
    /\ stderr = EmptyBag
    /\ exit_status = None
    /\ issued = <<>>

\* vec_u8_to_i16(vec_u8)
DecodeBytes ==
    /\ gen.stage = "bytes"
    /\ gen' = [gen EXCEPT !.stage = "decoded", !.vec_i16 = vec_u8_to_i16(gen.vec_u8)]
    /\ UNCHANGED MainVars

NextBytes == DecodeBytes

SpecBytes == InitBytes /\ [][NextBytes]_vars

\* ------------------------------------------------------------------------
\* Properties of the topology generators (checked under SpecGen)
\* ------------------------------------------------------------------------
GenHasPoints == gen.stage \in {"points", "tiled", "textured", "saved"}

\* C8: for every even model size m = 2g >= 2 the seam-duplicating generator
\* produces the lattice indices 0..4g^2+1, the texture indices 0..4g^2+2g and
\* exactly 8g^2 triangles (m=2: 6/7/8, m=4: 18/21/32, m=8: 66/73/128).
C8_ObjCounts ==
    (GenHasPoints /\ gen.strategy = "Obj") =>
        LET m == gen.model_size
            g == m \div 2
            lattice == Cardinality(DOMAIN gen.geopoints)
            texture == Cardinality(DOMAIN Unwrap(gen.points_map_opt))
            faces   == Len(gen.elements)
        IN  /\ m = 2 * g /\ g >= 1
            /\ DOMAIN gen.geopoints = 0..(4 * g * g + 1)
            /\ DOMAIN Unwrap(gen.points_map_opt) = 0..(4 * g * g + 2 * g)
            /\ faces = 8 * g * g
            /\ (m = 2 => <<lattice, texture, faces>> = <<6, 7, 8>>)
            /\ (m = 4 => <<lattice, texture, faces>> = <<18, 21, 32>>)
            /\ (m = 8 => <<lattice, texture, faces>> = <<66, 73, 128>>)

C8_Witness ==
    /\ gen.stage = "points"
    /\ gen.strategy = "Obj"
    /\ gen.model_size = 8
    /\ Cardinality(DOMAIN gen.geopoints) = 66
    /\ Len(gen.elements) = 128

\* C9 as stated: a requested size of 3 is normalized to 2 and its topology has
\* 8 lattice points, 7 texture points and 8 triangles.
C9_Original ==
    (GenHasPoints /\ gen.strategy = "Obj" /\ gen.request = Some(3)) =>
        /\ gen.model_size = 2
        /\ Cardinality(DOMAIN gen.geopoints) = 8
        /\ Cardinality(DOMAIN Unwrap(gen.points_map_opt)) = 7
        /\ Len(gen.elements) = 8

\* C9 amended: a requested size of 3 is normalized to 2 and its topology has
\* 6 lattice points, 7 texture points and 8 triangles.
C9_SizeThree ==
    (GenHasPoints /\ gen.strategy = "Obj" /\ gen.request = Some(3)) =>
        /\ gen.model_size = 2
        /\ Cardinality(DOMAIN gen.geopoints) = 6
        /\ Cardinality(DOMAIN Unwrap(gen.points_map_opt)) = 7
        /\ Len(gen.elements) = 8

C9_Witness ==
    /\ gen.stage = "points"
    /\ gen.strategy = "Obj"
    /\ gen.request = Some(3)
    /\ gen.elements = <<<<0, 1, 5>>, <<1, 0, 6>>, <<1, 2, 5>>, <<2, 1, 6>>,
                        <<2, 3, 5>>, <<3, 2, 6>>, <<3, 4, 5>>, <<4, 3, 6>>>>

\* C10: for every normalized size m >= 4 the uniform generator emits exactly
\* (2m+1)*(m+1) points, the point of column i in 0..2m and row j in 0..m under
\* lattice index j*(2m+1)+i, no triangle and no texture-point mapping; column
\* 2m has the longitude -180 of column 0, every other column i has longitude
\* -180 + i*180/m.
C10_UniformGrid ==
    (GenHasPoints /\ gen.strategy = "X3D") =>
        LET m == gen.model_size
        IN  /\ m >= 4
            /\ DOMAIN gen.geopoints = 0..((2 * m + 1) * (m + 1) - 1)
            /\ Cardinality(DOMAIN gen.geopoints) = (2 * m + 1) * (m + 1)
            /\ gen.elements = <<>>
            /\ gen.points_map_opt = None
            /\ \A j \in 0..m : \A i \in 0..(2 * m) :
                LET lon == gen.geopoints[j * (2 * m + 1) + i].lon
                IN  /\ gen.geopoints[j * (2 * m + 1) + i].lat = gen.geopoints[j * (2 * m + 1)].lat
                    /\ i = 2 * m => lon = RInt(-HalfTurn)
                                    /\ lon = gen.geopoints[j * (2 * m + 1)].lon
                    /\ i < 2 * m => lon = Rat(-HalfTurn * m + i * HalfTurn, m)

C10_Witness ==
    /\ gen.stage = "points"
    /\ gen.strategy = "X3D"
    /\ gen.model_size = 5
    /\ Cardinality(DOMAIN gen.geopoints) = 66
    /\ gen.geopoints[10].lon = gen.geopoints[0].lon
    /\ gen.geopoints[9].lon # gen.geopoints[0].lon

\* ------------------------------------------------------------------------
\* Properties of the sampling pass (checked under Spec)
\* ------------------------------------------------------------------------
Range(seq) == {seq[n] : n \in DOMAIN seq}

AllWorkersExited == \A w \in Workers : wpc[w] \in {"exited", "unspawned"}

\* every spawned worker has left its while loop and the scope can end
PassDrained == pc = "scope" /\ AllWorkersExited

\* C1: with any number of workers calling TileID::next(180*360), the n-th
\* value issued (n = 0, 1, ..) is (n div 180 - 180, n mod 180 - 90): latitude
\* varies fastest from (-180,-90) on, no TileID outside the legal space is
\* issued, none is issued twice or held by two workers, and when the workers
\* have exited every legal TileID has been issued.
C1_TileSequence ==
    /\ \A n \in 1..Len(issued) :
        /\ issued[n] = TileID(((n - 1) \div HalfTurn) - HalfTurn, ((n - 1) % HalfTurn) - QuarterTurn)
        /\ issued[n] \in LegalTiles
        /\ n <= HalfTurn => issued[n] = TileID(-HalfTurn, -QuarterTurn + (n - 1))
    /\ \A a, b \in 1..Len(issued) : a # b => issued[a] # issued[b]
    /\ \A w \in Workers : wtile[w] # None => Unwrap(wtile[w]) \in Range(issued)
    /\ \A v, w \in Workers : (v # w /\ wtile[v] # None) => wtile[v] # wtile[w]
    /\ (PassDrained \/ mutex.state = "taken") =>
            /\ Range(issued) = LegalTiles
            /\ Len(issued) = get_max_number_of_tiles

C1_Witness ==
    /\ pc = "scope"
    /\ settings.jobs = 2
    /\ Len(issued) = get_max_number_of_tiles
    /\ wtile[1] # None
    /\ wtile[2] # None

\* the pass as one thread performs it: the tiles in counter order, every
\* loaded tile sampled and appended at once
RECURSIVE SequentialPass(_, _)
SequentialPass(ctx, st) ==
    LET next == TileID_next(st.count, get_max_number_of_tiles)
    IN  IF next = None
        THEN st
        ELSE LET tile_id == Unwrap(next)
                 load_result == IF tile_id \in DOMAIN ctx.geopoints_tiles
                                THEN load(ctx.files, ctx.opts, tile_id)
                                ELSE Ok(None)
             IN  IF load_result.tag = "Err" \/ load_result.val = None
                 THEN SequentialPass(ctx, [st EXCEPT !.count = st.count + 1])
                 ELSE LET hs == SampleHeights(Unwrap(load_result.val), ctx.geopoints_tiles[tile_id])
                          cs == [k \in DOMAIN hs |-> color_mapping(ctx.color_table, hs[k])]
                      IN  SequentialPass(ctx,
                            [count   |-> st.count + 1,
                             heights |-> BTreeAppend(st.heights, hs),
                             colors  |-> IF ctx.color THEN BTreeAppend(st.colors, cs) ELSE st.colors])

\* the maps a sequential pass over the data directory fs returns
SequentialMaps(fs) ==
    LET t == Unwrap(topo)
        color == settings.model_type = "color"
    IN  SequentialPass(
            [files |-> fs, opts |-> Opts, geopoints_tiles |-> t.geopoints_tiles,
             color_table |-> color_table, color |-> color],
            [count   |-> 0,
             heights |-> [k \in PreSeedKeys(t.model_size) |-> PreSeedHeight],
             colors  |-> IF color
                         THEN [k \in PreSeedKeys(t.model_size) |->
                                    color_mapping(color_table, Opts.sea_level)]
                         ELSE <<>>])

\* the tile of lattice index k was loaded: its handle
LoadedTileOf(k) ==
    LET geopoints == Unwrap(topo).modelpoints.geopoints
        tile_id == find_tile_id(geopoints[k])
    IN  IF k \in DOMAIN geopoints /\ tile_id \in LegalTiles
        THEN LET load_result == load(files, Opts, tile_id)
             IN  IF load_result.tag = "Ok" THEN load_result.val ELSE None
        ELSE None

\* C2: whatever jobs and the schedule, the Heights map (and in color mode the
\* Colors map) the pass returns equals the map of a single-threaded pass in
\* counter order: every index holds the value sampled from its point's tile
\* if that tile was loaded and the pre-seeded default otherwise.
C2_SequentialEquivalence ==
    model # None =>
        LET m == Unwrap(model)
            ref == SequentialMaps(files)
            color == settings.model_type = "color"
            geopoints == Unwrap(topo).modelpoints.geopoints
        IN  /\ m.heights = ref.heights
            /\ m.colors = ref.colors
            /\ DOMAIN m.heights = PreSeedKeys(Unwrap(topo).model_size)
            /\ \A k \in DOMAIN m.heights :
                LET dem_tile == LoadedTileOf(k)
                IN  IF dem_tile # None
                    THEN LET h == Unwrap(calc_height(Unwrap(dem_tile), geopoints[k]))
                         IN  /\ m.heights[k] = h
                             /\ color => m.colors[k] = color_mapping(color_table, h)
                    ELSE /\ m.heights[k] = PreSeedHeight
                         /\ color => m.colors[k] = color_mapping(color_table, Opts.sea_level)

C2_Witness ==
    /\ model # None
    /\ settings.jobs = 2
    /\ settings.model_type = "color"
    /\ \E k, l \in DOMAIN Unwrap(model).heights :
            /\ Unwrap(model).heights[k] = 257
            /\ Unwrap(model).heights[l] = PreSeedHeight
            /\ Unwrap(model).colors[k] # Unwrap(model).colors[l]

\* load applied to the tile of lattice index k, Ok(None) when k has no legal tile
LoadResultOf(k) ==
    LET geopoints == Unwrap(topo).modelpoints.geopoints
        tile_id == find_tile_id(geopoints[k])
    IN  IF tile_id \in LegalTiles THEN load(files, Opts, tile_id) ELSE Ok(None)

\* the lattice indices whose tile file is missing / fails to load
MissingTilePoints ==
    {k \in DOMAIN Unwrap(topo).modelpoints.geopoints :
        find_tile_id(Unwrap(topo).modelpoints.geopoints[k]) \in LegalTiles
        /\ LoadResultOf(k) = Ok(None)}

FailedTilePoints ==
    {k \in DOMAIN Unwrap(topo).modelpoints.geopoints : LoadResultOf(k).tag = "Err"}

\* C4: when the tile file of a lattice point is missing (load returns
\* Ok(None)) the pass succeeds and the point's height is the configured
\* sea-level elevation and, in color mode, its color is the color-table color
\* of that elevation, whatever sea_level is configured.
C4_MissingTileKeepsSeaLevel ==
    model # None =>
        \A k \in MissingTilePoints :
            /\ Unwrap(model).heights[k] = Opts.sea_level
            /\ settings.model_type = "color" =>
                    Unwrap(model).colors[k] = color_mapping(color_table, Opts.sea_level)

\* the data directory in which every tile that fails to load is absent instead
AsAbsent(fs) ==
    [name \in DOMAIN fs |->
        IF load(fs, Opts, TileOf(name)).tag = "Err" THEN TileFile(1) ELSE fs[name]]

\* the tiles of the counter's range with a group of points whose load returns an error
FailedTiles ==
    {t \in (DOMAIN Unwrap(topo).geopoints_tiles) \cap LegalTiles : load(files, Opts, t).tag = "Err"}

\* C5: a tile whose load returns an error is logged once and merges nothing;
\* the worker goes on fetching TileIDs, so that a worker exits only when the
\* counter is exhausted and every tile is issued; the points of the failed
\* tile keep their defaults and the maps of the pass are those of a pass over
\* a directory in which the failed tiles are absent.
C5_LoadErrorIsAbsence ==
    /\ \A w \in Workers : wpc[w] = "exited" => Len(issued) = get_max_number_of_tiles
    /\ \A w \in Workers :
            (wtile[w] # None /\ wpc[w] \in {"lock", "append_heights", "append_colors", "drop"})
                => load(files, Opts, Unwrap(wtile[w])).tag = "Ok"
    /\ (PassDrained \/ model # None) =>
            /\ \A t \in LegalTiles : t \in Range(issued)
            /\ \A t \in FailedTiles : CopiesIn(load(files, Opts, t).msg, stderr) = 1
    /\ model # None =>
        LET m == Unwrap(model)
            ref == SequentialMaps(AsAbsent(files))
        IN  /\ m.heights = ref.heights
            /\ m.colors = ref.colors
            /\ \A k \in FailedTilePoints :
                /\ m.heights[k] = PreSeedHeight
                /\ settings.model_type = "color" =>
                        m.colors[k] = color_mapping(color_table, Opts.sea_level)

C5_Witness ==
    /\ model # None
    /\ settings.jobs = 2
    /\ FailedTilePoints # {}
    /\ \E t, u \in FailedTiles : load(files, Opts, t).msg[1] # load(files, Opts, u).msg[1]
    /\ \E k \in DOMAIN Unwrap(model).heights : Unwrap(model).heights[k] = 257

\* create_with_color returned the error of get_color_mapping
ColorProfileError == result.tag = "Err" /\ result.msg[1] = "Can't find color profile file"

\* C6: in color mode, when the color profile cannot be read or
\* build_color_table rejects it, create_with_color returns the error before
\* a worker is spawned: the counter is untouched, no TileID was issued, no
\* tile was loaded or logged, no mutex holds maps and no model is built.
C6_ColorErrorBeforeSampling ==
    ColorProfileError =>
        /\ TILE_COUNT = 0
        /\ issued = <<>>
        /\ \A w \in Workers :
            /\ wpc[w] = "unspawned"
            /\ wtile[w] = None
            /\ tile_heights[w] = EmptyMap
            /\ tile_colors[w] = EmptyMap
        /\ mutex = NoMutex
        /\ model = None
        /\ \A line \in BagToSet(stderr) : line[1] = "Error:"

C6_Witness ==
    /\ ColorProfileError
    /\ pc = "exited"
    /\ result.msg[2] = <<"Heights in color profile must be strictly incremental">>

\* the "Error: .." lines on stderr
FatalLines == {line \in BagToSet(stderr) : line[1] = "Error:"}

\* C7: a run whose materialize ends with a fatal error prints exactly one
\* error message and terminates with a non-zero status; a run with per-tile
\* load errors only terminates with the status of a run without them.
C7_FatalErrorStatus ==
    pc = "exited" =>
        /\ result.tag = "Err" =>
            /\ Cardinality(FatalLines) = 1
            /\ \A line \in FatalLines : CopiesIn(line, stderr) = 1
            /\ exit_status # Some(0)
        /\ result.tag = "Ok" =>
            /\ FatalLines = {}
            /\ exit_status = Some(0)

\* no worker holds sampled entries that are not merged yet
NoPendingMerge ==
    \A w \in Workers : tile_heights[w] = EmptyMap /\ tile_colors[w] = EmptyMap

\* C3: for any jobs >= 1, with loads that return, every spawned worker
\* eventually receives None from TileID::next and exits and the scope ends;
\* the maps are taken out of the mutex only when every spawned worker has
\* exited, nobody owns the mutex and every sampled entry is merged, and from
\* then on no worker moves and nothing is merged.
C3_WorkersExitBeforeBuild ==
    /\ (pc = "scope") ~> (mutex.state = "taken")
    /\ [](mutex.state = "taken" =>
            /\ AllWorkersExited
            /\ \E w \in Workers : wpc[w] = "exited"
            /\ TILE_COUNT = get_max_number_of_tiles + settings.jobs
            /\ NoPendingMerge)
    /\ [][mutex.state = "live" /\ mutex'.state = "taken" =>
            /\ AllWorkersExited
            /\ mutex.owner = None
            /\ NoPendingMerge
            /\ model' # None => /\ Unwrap(model').heights = mutex.heights
                                /\ Unwrap(model').colors = mutex.colors]_vars
    /\ [][mutex.state = "taken" => UNCHANGED <<mutex, wpc, tile_heights, tile_colors>>]_vars

C3_Witness ==
    /\ mutex.state = "taken"
    /\ model # None
    /\ settings.jobs = 2
    /\ wpc[1] = "exited"
    /\ wpc[2] = "exited"
    /\ \E k \in DOMAIN Unwrap(model).heights : Unwrap(model).heights[k] = 257

\* ------------------------------------------------------------------------
\* Further properties of the topology generators (checked under SpecGen)
\* ------------------------------------------------------------------------
\* C11: Obj::make_valid_model_size always returns an even size >= 2 (below 2
\* gives 2, an odd n >= 3 gives n-1, an even n >= 2 gives n, an absent size
\* gives 16); X3DGeospatial::make_valid_model_size always returns a size >= 4
\* (below 4 or absent gives 4, any other value is unchanged); normalizing a
\* normalized size returns it unchanged.
C11_NormalizedSize ==
    gen.stage # "request" =>
        LET m == gen.model_size
            r == gen.request
        IN  /\ gen.strategy = "Obj" =>
                /\ m % 2 = 0 /\ m >= 2
                /\ r = None => m = 16
                /\ (r # None /\ Unwrap(r) < 2) => m = 2
                /\ (r # None /\ Unwrap(r) >= 3 /\ Unwrap(r) % 2 = 1) => m = Unwrap(r) - 1
                /\ (r # None /\ Unwrap(r) >= 2 /\ Unwrap(r) % 2 = 0) => m = Unwrap(r)
            /\ gen.strategy = "X3D" =>
                /\ m >= 4
                /\ (r = None \/ (r # None /\ Unwrap(r) < 4)) => m = 4
                /\ (r # None /\ Unwrap(r) >= 4) => m = Unwrap(r)
            /\ make_valid_model_size(gen.strategy, Some(m)) = m

C11_Witness ==
    /\ gen.stage = "sized"
    /\ gen.strategy = "X3D"
    /\ gen.request = Some(3)
    /\ gen.model_size = 4

\* C12: for every even model size >= 2 every index that occurs in a triangle
\* of the generated Elements is a key of the generated texture-point mapping,
\* so the lookups of the serializer find all three corners of every triangle
\* and it writes one face per triangle.
C12_ElementsInMapping ==
    (GenHasPoints /\ gen.strategy = "Obj") =>
        /\ gen.points_map_opt # None
        /\ \A n \in DOMAIN gen.elements : \A c \in 1..3 :
                gen.elements[n][c] \in DOMAIN Unwrap(gen.points_map_opt)
        /\ gen.stage = "saved" =>
                /\ gen.faces.tag = "Ok"
                /\ Len(gen.faces.val) = Len(gen.elements)

C12_Witness ==
    /\ gen.stage = "saved"
    /\ gen.model_size = 2
    /\ gen.faces = Ok(<<<<0, 1, 4>>, <<1, 0, 5>>, <<1, 2, 4>>, <<2, 1, 5>>,
                        <<2, 3, 4>>, <<3, 2, 5>>, <<3, 0, 4>>, <<0, 3, 5>>>>)

\* the lattice index of the first (north) point of inner ring j for gnn = g
RingStart(g, j) == 4 * g + 8 * (j - 1) * g - 4 * (j - 1) * j

\* the first point of the equator and the first north and south point of
\* every inner ring
SeamPoints(g) == {0} \cup UNION {{RingStart(g, j), RingStart(g, j) + 1} : j \in 1..(g - 1)}

\* the texture points that refer to lattice point r
TexturePointsOf(r) == {t \in DOMAIN Unwrap(gen.points_map_opt) : Unwrap(gen.points_map_opt)[t] = r}

\* C13: the texture-point mapping of the seam-duplicating topology is a total
\* function from the texture indices 0..T-1 onto the lattice indices; the
\* first point of the equator and the first north and first south point of
\* every inner ring (the points of longitude -180) are referenced by exactly
\* two texture points, the one inserted with the point and a duplicate
\* inserted after later points; every other lattice point, both poles
\* included, is referenced by exactly one.
C13_MappingMultiplicity ==
    (GenHasPoints /\ gen.strategy = "Obj") =>
        LET pmap == Unwrap(gen.points_map_opt)
            g == gen.model_size \div 2
            lattice == DOMAIN gen.geopoints
            poles == {r \in lattice : gen.geopoints[r].lat \in {RInt(QuarterTurn), RInt(-QuarterTurn)}}
        IN  /\ DOMAIN pmap = 0..(Cardinality(DOMAIN pmap) - 1)
            /\ {pmap[t] : t \in DOMAIN pmap} = lattice
            /\ SeamPoints(g) = {r \in lattice : gen.geopoints[r].lon = RInt(-HalfTurn)}
            /\ Cardinality(poles) = 2
            /\ poles \cap SeamPoints(g) = {}
            /\ \A r \in lattice :
                Cardinality(TexturePointsOf(r)) = IF r \in SeamPoints(g) THEN 2 ELSE 1
            /\ \A r \in SeamPoints(g) : \E t, u \in TexturePointsOf(r) :
                /\ t < u
                /\ \A v \in 0..(t - 1) : pmap[v] < r
                /\ \E v \in 0..(u - 1) : pmap[v] > r

C13_Witness ==
    /\ gen.stage = "points"
    /\ gen.strategy = "Obj"
    /\ gen.model_size = 6
    /\ SeamPoints(3) = {0, 12, 13, 28, 29}
    /\ TexturePointsOf(12) = {13, 29}
    /\ Cardinality(TexturePointsOf(37)) = 1

\* the triangles in lattice indices: every corner translated through the mapping
LatticeFaces ==
    [n \in DOMAIN gen.elements |->
        <<Unwrap(gen.points_map_opt)[gen.elements[n][1]],
          Unwrap(gen.points_map_opt)[gen.elements[n][2]],
          Unwrap(gen.points_map_opt)[gen.elements[n][3]]>>]

\* the directed edges of a triangle
DirectedEdges(f) == {<<f[1], f[2]>>, <<f[2], f[3]>>, <<f[3], f[1]>>}

\* the triangles that run along the directed edge e
FacesAlong(e) == {n \in DOMAIN gen.elements : e \in DirectedEdges(LatticeFaces[n])}

\* C14: in lattice indices every triangle of the seam-duplicating topology
\* has three distinct vertices, and every directed edge (a, b) occurs in
\* exactly one triangle and its reverse (b, a) in exactly one triangle, for
\* every even model size >= 2; for size 2 the triangles are (k, k+1, 5) and
\* (k+1, k, 6), k = 0..3, in texture indices.
C14_ConsistentWinding ==
    (GenHasPoints /\ gen.strategy = "Obj") =>
        /\ \A n \in DOMAIN gen.elements :
            LET f == LatticeFaces[n]
            IN  /\ f[1] # f[2] /\ f[2] # f[3] /\ f[3] # f[1]
                /\ \A e \in DirectedEdges(f) :
                    /\ FacesAlong(e) = {n}
                    /\ Cardinality(FacesAlong(<<e[2], e[1]>>)) = 1
        /\ gen.model_size = 2 =>
            /\ Len(gen.elements) = 8
            /\ \A k \in 0..3 :
                /\ gen.elements[2 * k + 1] = <<k, k + 1, 5>>
                /\ gen.elements[2 * k + 2] = <<k + 1, k, 6>>

C14_Witness ==
    /\ gen.stage = "points"
    /\ gen.strategy = "Obj"
    /\ gen.model_size = 6
    /\ Len(gen.elements) = 72
    /\ \E n \in DOMAIN gen.elements : gen.elements[n] # LatticeFaces[n]

\* the (u, v) pair of texture index t
TextureCoordinateOf(t) == gen.texture_coordinates[t + 1]

\* C15: Obj::create_texture_coordinates(m) returns one (u, v) pair per
\* texture point, in texture-index order: equator points have v = 0.5, the
\* north pole is (0, 1), the south pole (0, 0), a point of inner ring j has
\* v = 0.5 + j/m (north) or 0.5 - j/m (south); a texture point that is
\* neither a pole nor a seam duplicate has u = (lon + 180)/360 of its lattice
\* point; a seam duplicate has u = 1 while the texture point it duplicates
\* has u = 0 and the same v.
C15_TextureCoordinates ==
    (gen.stage \in {"textured", "saved"} /\ gen.strategy = "Obj") =>
        LET pmap == Unwrap(gen.points_map_opt)
            m == gen.model_size
            g == m \div 2
            spacing == define_spacing(m)
        IN  /\ Len(gen.texture_coordinates) = Cardinality(DOMAIN pmap)
            /\ \A t \in DOMAIN pmap :
                LET r == pmap[t]
                    p == gen.geopoints[r]
                    u == TextureCoordinateOf(t)[1]
                    v == TextureCoordinateOf(t)[2]
                    own == CHOOSE x \in TexturePointsOf(r) : \A y \in TexturePointsOf(r) : x <= y
                IN  /\ p.lat = RInt(0) => v = Rat(1, 2)
                    /\ p.lat = RInt(QuarterTurn) => (u = RInt(0) /\ v = RInt(1))
                    /\ p.lat = RInt(-QuarterTurn) => (u = RInt(0) /\ v = RInt(0))
                    /\ \A j \in 1..(g - 1) :
                        /\ p.lat = RMul(spacing, RInt(j)) => v = RAdd(Rat(1, 2), Rat(j, m))
                        /\ p.lat = RMul(spacing, RInt(-j)) => v = RAdd(Rat(1, 2), Rat(-j, m))
                    /\ \E j \in (-g)..g : p.lat = RMul(spacing, RInt(j))
                    /\ (t = own /\ p.lat \notin {RInt(QuarterTurn), RInt(-QuarterTurn)}) =>
                            u = RMul(RAdd(p.lon, RInt(HalfTurn)), Rat(1, FullTurn))
                    /\ t # own =>
                            /\ u = RInt(1)
                            /\ TextureCoordinateOf(own)[1] = RInt(0)
                            /\ TextureCoordinateOf(own)[2] = v

C15_Witness ==
    /\ gen.stage = "textured"
    /\ gen.strategy = "Obj"
    /\ gen.model_size = 4
    /\ gen.texture_coordinates =
        <<<<<<0, 1>>, <<1, 2>>>>, <<<<1, 8>>, <<1, 2>>>>, <<<<1, 4>>, <<1, 2>>>>,
          <<<<3, 8>>, <<1, 2>>>>, <<<<1, 2>>, <<1, 2>>>>, <<<<5, 8>>, <<1, 2>>>>,
          <<<<3, 4>>, <<1, 2>>>>, <<<<7, 8>>, <<1, 2>>>>, <<<<1, 1>>, <<1, 2>>>>,
          <<<<0, 1>>, <<3, 4>>>>, <<<<0, 1>>, <<1, 4>>>>, <<<<1, 4>>, <<3, 4>>>>,
          <<<<1, 4>>, <<1, 4>>>>, <<<<1, 2>>, <<3, 4>>>>, <<<<1, 2>>, <<1, 4>>>>,
          <<<<3, 4>>, <<3, 4>>>>, <<<<3, 4>>, <<1, 4>>>>, <<<<1, 1>>, <<3, 4>>>>,
          <<<<1, 1>>, <<1, 4>>>>, <<<<0, 1>>, <<1, 1>>>>, <<<<0, 1>>, <<0, 1>>>>>>

\* ------------------------------------------------------------------------
\* C16: for a color table with elevations h_1 < ... < h_n the lookup is
\* defined for every 16-bit elevation and never panics: every integer in
\* [h_1, h_n] has an entry in the mapping, an elevation h_i gives row i's
\* color, an elevation below h_1 gives row 1's color, one above h_n gives
\* row n's color, and an elevation strictly between h_i and h_(i+1) gives, in
\* each channel, c_i + (c_(i+1) - c_i) * (h - h_i) / (h_(i+1) - h_i).
\* ------------------------------------------------------------------------
RowColor(row) == RGB(row.r, row.g, row.b)

Channels(row) == <<row.r, row.g, row.b>>

C16_TotalLookup ==
    /\ gen.stage \in {"table", "lookup"} /\ gen.table.tag = "Ok" =>
            LET t == gen.table.val
            IN  (t[1].h .. t[Len(t)].h) \subseteq DOMAIN build_color_mapping(t)
    /\ gen.stage = "lookup" =>
            LET t == gen.table.val
                n == Len(t)
                h == gen.h
                c == gen.color
            IN  /\ h \in MinHeightInt..MaxHeightInt
                /\ c # Panic
                /\ h < t[1].h => c = RowColor(t[1])
                /\ h > t[n].h => c = RowColor(t[n])
                /\ \A i \in 1..n : h = t[i].h => c = RowColor(t[i])
                /\ \A i \in 1..(n - 1) :
                        t[i].h < h /\ h < t[i + 1].h =>
                            \A k \in 1..3 :
                                RMul(RAdd(c[k], RNeg(Channels(t[i])[k])),
                                     RInt(t[i + 1].h - t[i].h))
                                = RMul(RAdd(Channels(t[i + 1])[k], RNeg(Channels(t[i])[k])),
                                       RInt(h - t[i].h))

\* the profile "2 0.5 1.0 0.0", "5 1.0 0.5 0.5 " asked for elevation 3
C16_Witness ==
    /\ gen.stage = "lookup"
    /\ gen.h = 3
    /\ Len(gen.table.val) = 2
    /\ gen.color = RGB(<<2, 3>>, <<5, 6>>, <<1, 6>>)

\* ------------------------------------------------------------------------
\* C17: build_color_table reads the lines in file order and returns the
\* error of the first offending row: a red, green or blue channel outside
\* [0,1] gives "Invalid number in second/third/fourth column of line L in
\* color profile" with L the 1-based position of the line (skipped lines
\* counted), red before green before blue before the elevation; an
\* elevation not above that of the previously accepted row gives "Heights
\* in color profile must be strictly incremental"; with no accepted row the
\* result is "Color table is empty"; otherwise the accepted rows come back
\* in input order, elevations strictly increasing, channels within [0,1].
\* ------------------------------------------------------------------------
MatchingLines(file_content) ==
    {l \in 1..Len(file_content) : re_captures(file_content[l]) # None}

RowAt(file_content, l) == Unwrap(re_captures(file_content[l]))

OutsideUnit(tenths) == tenths > 10 \/ tenths < 0

Greatest(S) == CHOOSE x \in S : \A y \in S : y <= x

Least(S) == CHOOSE x \in S : \A y \in S : x <= y

\* line l offends, given that every matching line before it was accepted
Offending(file_content, l) ==
    /\ l \in MatchingLines(file_content)
    /\ LET before == {k \in MatchingLines(file_content) : k < l}
       IN  \/ \E c \in 2..4 : OutsideUnit(RowAt(file_content, l)[c])
           \/ /\ before # {}
              /\ RowAt(file_content, l)[1] <= RowAt(file_content, Greatest(before))[1]

RowRecord(caps) == ColorRecord(caps[1], Rat(caps[2], 10), Rat(caps[3], 10), Rat(caps[4], 10))

MatchingRows(file_content) ==
    LET kept == SelectSeq(file_content, LAMBDA line : re_captures(line) # None)
    IN  [i \in 1..Len(kept) |-> RowRecord(Unwrap(re_captures(kept[i])))]

IsRowLine(line) ==
    \E b, c, d \in 1..Len(line) :
        /\ 2 < b /\ b + 1 < c /\ c + 1 < d
        /\ line[1].kind = "digits"
        /\ \A n \in {b, c, d} : line[n].kind \in {"digits", "decimal"}
        /\ \A n \in (1..Len(line)) \ {1, b, c, d} : line[n].kind = "space"

RowLinesOf(file_content) == SelectSeq(file_content, IsRowLine)

\* the number of row lines among the first l lines
RowLinesUpTo(file_content, l) == Len(RowLinesOf(SubSeq(file_content, 1, l)))

C18_SkippedLines ==
    /\ \A line \in {Skipped, CommentLine, IndentedLine, ShortLine} : ~IsRowLine(line)
    /\ gen.stage \in {"table", "lookup"} =>
            LET file_content == gen.file_content
                rows_only    == build_color_table(RowLinesOf(file_content))
            IN  /\ gen.table.tag = rows_only.tag
                /\ gen.table.tag = "Ok" =>
                        /\ gen.table.val = rows_only.val
                        /\ Len(gen.table.val) = Len(RowLinesOf(file_content))
                        /\ \A i \in 1..Len(gen.table.val) :
                                gen.table.val[i] =
                                    RowRecord(Unwrap(re_captures(RowLinesOf(file_content)[i])))
                /\ gen.table.tag = "Err" =>
                        /\ gen.table.msg[1] = rows_only.msg[1]
                        /\ Len(gen.table.msg) = Len(rows_only.msg)
                        /\ Len(gen.table.msg) = 3 =>
                                /\ IsRowLine(file_content[gen.table.msg[2]])
                                /\ RowLinesUpTo(file_content, gen.table.msg[2]) = rows_only.msg[2]

\* "0 0.0 0.0 0.7", " 1 0.5 0.5 0.5", "2 0.5 1.0 0.0": two rows
C18_Witness ==
    /\ gen.stage = "table"
    /\ gen.file_content = <<Row(0, 0, 0, 7), IndentedLine, Row(2, 5, 10, 0)>>
    /\ gen.table.tag = "Ok"
    /\ Len(gen.table.val) = 2

\* ------------------------------------------------------------------------
\* C19: for a precision p > 0 and a color with channels in [0,1] the allowed
\* color has, in each channel c, the value k/p where k is c*p rounded to the
\* nearest integer, halves away from zero; the color position is
\* (k_r, k_g, k_b) with every k in 0..p; the allowed color of an allowed
\* color is itself, with the same position.  For p = 0 the result is the
\* gray (0.5, 0.5, 0.5) with position (0, 0, 0) whatever the color.
\* ------------------------------------------------------------------------
\* k is c*p rounded to the nearest integer, halves away from zero, for the
\* f32 c = <<m, e>>, 0 <= c <= 1
IsRounded(k, c, p) ==
    LET twice == 2 * Abs(c[1] * p - k * Pow2[-c[2]])
    IN  \/ twice < Pow2[-c[2]]
        \/ twice = Pow2[-c[2]] /\ k * Pow2[-c[2]] > c[1] * p

\* the f32 c is k/p, up to two units in its last place (the two roundings
\* of 1.0/p and of k * interval)
IsStep(c, k, p) == Abs(c[1] * p - k * Pow2[-c[2]]) <= 2 * p

C19_AllowedColor ==
    gen.stage = "allowed" =>
        LET p == gen.color_precision
            color == gen.allowed[1]
            position == gen.allowed[2]
        IN  /\ p > 0 =>
                    /\ \A k \in 1..3 :
                            /\ IsRounded(position[k], gen.color[k], p)
                            /\ position[k] \in 0..p
                            /\ IsStep(color[k], position[k], p)
                    /\ make_allowed_color_function(p, color) = gen.allowed
            /\ p = 0 => gen.allowed = <<RGB(<<Pow2[23], -24>>, <<Pow2[23], -24>>, <<Pow2[23], -24>>),
                                        <<0, 0, 0>>>>

\* ------------------------------------------------------------------------
\* C20: calc_height(tile, point) is None exactly when the point lies outside
\* [lon_left, lon_left+1) x [lat_bottom, lat_bottom+1); otherwise it reads
\* the sample at column floor((lon - lon_left)*1200) and row
\* 1200 - floor((lat - lat_bottom)*1200) of the 1201 x 1201 row-major grid,
\* at the flat index row*1201 + column, which lies in 0..1201*1201-1, and
\* returns the sea level when the sample is the no-data value and the sample
\* otherwise.
\* ------------------------------------------------------------------------
\* floor((coord - corner) * 1200) for the rational coord = <<n, d>>
CellOf(coord, corner) == ((coord[1] - corner * coord[2]) * 1200) \div coord[2]

PointInside(dem_tile, geo_point) ==
    /\ dem_tile.lon_left * geo_point.lon[2] <= geo_point.lon[1]
    /\ geo_point.lon[1] < (dem_tile.lon_left + 1) * geo_point.lon[2]
    /\ dem_tile.lat_bottom * geo_point.lat[2] <= geo_point.lat[1]
    /\ geo_point.lat[1] < (dem_tile.lat_bottom + 1) * geo_point.lat[2]

RECURSIVE DigitsValue(_)
DigitsValue(digits) ==
    IF digits = <<>>
    THEN 0
    ELSE 10 * DigitsValue(SubSeq(digits, 1, Len(digits) - 1)) + digits[Len(digits)]

\* name is {N|S}{|lat|:02}{E|W}{|lon|:03}.hgt for the tile
IsNameOf(name, tile_id) ==
    /\ Len(name) = 5
    /\ name[1] = (IF tile_id.lat >= 0 THEN "N" ELSE "S")
    /\ Len(name[2]) = 2 /\ DigitsValue(name[2]) = Abs(tile_id.lat)
    /\ name[3] = (IF tile_id.lon >= 0 THEN "E" ELSE "W")
    /\ Len(name[4]) = 3 /\ DigitsValue(name[4]) = Abs(tile_id.lon)
    /\ name[5] = ".hgt"

C21_LoadOutcome ==
    /\ \A t, u \in LegalTiles : t # u => file_name(t) # file_name(u)
    /\ gen.stage = "loaded" =>
            LET tile_id == gen.tile_id
                loaded  == gen.loaded
            IN  IF tile_id.lon \notin -HalfTurn..(HalfTurn - 1)
                    \/ tile_id.lat \notin -QuarterTurn..(QuarterTurn - 1)
                THEN /\ loaded.tag = "Err"
                     /\ \A dir \in DataDirs : load(dir, gen.opts, tile_id) = loaded
                ELSE \E name \in DOMAIN files :
                        /\ IsNameOf(name, tile_id)
                        /\ \A dir \in DataDirs :
                                dir[name] = files[name] => load(dir, gen.opts, tile_id) = loaded
                        /\ ~files[name].exists => loaded = Ok(None)
                        /\ files[name].exists /\ files[name].len # 2884802 => loaded.tag = "Err"
                        /\ files[name].exists /\ ~files[name].readable => loaded.tag = "Err"
                        /\ files[name].exists /\ files[name].len = 2884802 /\ files[name].readable =>
                                /\ loaded.tag = "Ok"
                                /\ loaded.val # None
                                /\ Unwrap(loaded.val).lon_left = tile_id.lon
                                /\ Unwrap(loaded.val).lat_bottom = tile_id.lat
                                /\ Unwrap(loaded.val).dem_data # None
                                /\ Unwrap(Unwrap(loaded.val).dem_data).len = 1201 * 1201

\* the tile (-1, -1) loaded from S01W001.hgt, a file of 0x0101 bytes
C21_Witness ==
    /\ gen.stage = "loaded"
    /\ gen.tile_id = TileID(-1, -1)
    /\ file_name(gen.tile_id) = <<"S", <<0, 1>>, "W", <<0, 0, 1>>, ".hgt">>
    /\ gen.loaded.tag = "Ok"
    /\ gen.loaded.val # None
    /\ Unwrap(Unwrap(gen.loaded.val).dem_data).fill = 257

\* ------------------------------------------------------------------------
\* C22: vec_u8_to_i16 turns a byte vector of even length 2n into exactly n
\* values in the same order, value k being the big-endian signed 16-bit
\* integer of byte 2k (high) and byte 2k+1 (low), that is
\* 256*b[2k] + b[2k+1] modulo 2^16 as a signed value: [1,1] gives 257 and a
\* high byte >= 0x80 gives a negative value; a vector of odd length is never
\* decoded (the function panics).
\* ------------------------------------------------------------------------
C22_BigEndianDecode ==
    gen.stage = "decoded" =>
        LET b == gen.vec_u8.data
        IN  IF Len(b) % 2 # 0
            THEN gen.vec_i16.tag = "panic"
            ELSE /\ gen.vec_i16.tag = "Ok"
                 /\ Len(gen.vec_i16.val.data) * 2 = Len(b)
                 /\ \A k \in 1..Len(gen.vec_i16.val.data) :
                        LET value == gen.vec_i16.val.data[k]
                        IN  /\ value \in -32768..32767
                            /\ (value - (256 * b[2 * k - 1] + b[2 * k])) % 65536 = 0
                            /\ b[2 * k - 1] >= 128 <=> value < 0
                 /\ b = <<1, 1>> => gen.vec_i16.val.data = <<257>>

\* the bytes 01 01 80 01 decode to 257, -32767
C22_Witness ==
    /\ gen.stage = "decoded"
    /\ gen.vec_u8.data = <<1, 1, 128, 1>>
    /\ gen.vec_i16.tag = "Ok"
    /\ gen.vec_i16.val.data = <<257, -32767>>

\* ------------------------------------------------------------------------
\* C23: over a sampling pass every lattice index is written into the shared
\* Heights (and Colors) map by at most one merge: the key sets of two
\* per-tile local buffers are disjoint, a merge writes the keys of its own
\* buffer only, and each of them still holds its pre-seeded default, never a
\* value written by another merge, in every interleaving of the workers.
\* ------------------------------------------------------------------------
\* the lattice indices of the group of a tile
GroupKeys(tile_id) ==
    IF tile_id \in DOMAIN Unwrap(topo).geopoints_tiles
    THEN {Unwrap(topo).geopoints_tiles[tile_id][n][1] :
            n \in DOMAIN Unwrap(topo).geopoints_tiles[tile_id]}
    ELSE {}

\* the tiles handed out whose worker is past the merge of its heights
HeightsMergedTiles ==
    {issued[n] : n \in {m \in DOMAIN issued :
        ~\E w \in Workers :
            /\ wtile[w] = Some(issued[m])
            /\ wpc[w] \in {"load", "lock", "append_heights"}}}

ColorsMergedTiles ==
    {issued[n] : n \in {m \in DOMAIN issued :
        ~\E w \in Workers :
            /\ wtile[w] = Some(issued[m])
            /\ wpc[w] \in {"load", "lock", "append_heights", "append_colors"}}}

DisjointBuffers ==
    pc = "scope" =>
        /\ \A v, w \in Workers :
                v # w =>
                    /\ (DOMAIN tile_heights[v]) \cap (DOMAIN tile_heights[w]) = {}
                    /\ (DOMAIN tile_colors[v]) \cap (DOMAIN tile_colors[w]) = {}
        /\ \A w \in Workers :
                /\ wpc[w] \in {"lock", "append_heights"} =>
                        /\ DOMAIN tile_heights[w] \subseteq DOMAIN mutex.heights
                        /\ \A k \in DOMAIN tile_heights[w] : mutex.heights[k] = PreSeedHeight
                        /\ \A t \in HeightsMergedTiles :
                                (DOMAIN tile_heights[w]) \cap GroupKeys(t) = {}
                /\ wpc[w] \in {"lock", "append_heights", "append_colors"}
                    /\ settings.model_type = "color" =>
                        /\ DOMAIN tile_colors[w] \subseteq DOMAIN mutex.colors
                        /\ \A t \in ColorsMergedTiles :
                                (DOMAIN tile_colors[w]) \cap GroupKeys(t) = {}

\* a merge step of worker w changes the shared maps at the keys of w's buffer only
MergeWritesOwnKeys ==
    \A w \in Workers :
        /\ wpc[w] = "append_heights" /\ wpc'[w] # "append_heights" =>
                /\ DOMAIN mutex'.heights = DOMAIN mutex.heights
                /\ \A k \in (DOMAIN mutex.heights) \ (DOMAIN tile_heights[w]) :
                        mutex'.heights[k] = mutex.heights[k]
                /\ \A k \in DOMAIN tile_heights[w] : mutex'.heights[k] = tile_heights[w][k]
        /\ wpc[w] = "append_colors" /\ wpc'[w] # "append_colors" =>
                /\ DOMAIN mutex'.colors = DOMAIN mutex.colors
                /\ \A k \in (DOMAIN mutex.colors) \ (DOMAIN tile_colors[w]) :
                        mutex'.colors[k] = mutex.colors[k]
                /\ \A k \in DOMAIN tile_colors[w] : mutex'.colors[k] = tile_colors[w][k]

C23_DisjointMerges == []DisjointBuffers /\ [][MergeWritesOwnKeys]_vars

\* both workers hold a filled buffer, one of them inside its merge
C23_Witness ==
    /\ pc = "scope"
    /\ \E v, w \in Workers :
            /\ wpc[v] = "append_heights"
            /\ wpc[w] = "lock"
            /\ tile_heights[v] # EmptyMap
            /\ tile_heights[w] # EmptyMap
    /\ HeightsMergedTiles \cap DOMAIN Unwrap(topo).geopoints_tiles # {}

\* ------------------------------------------------------------------------
\* C24: a worker holds the mutex of the shared maps only while it appends
\* its finished per-tile buffer: never while it fetches a TileID, loads a
\* tile file or computes heights and colors; at most one worker is inside a
\* merge at any time; and a tile that has no group of points, is absent or
\* fails to load causes no lock acquisition at all.
\* ------------------------------------------------------------------------
InMerge(w) == wpc[w] \in {"append_heights", "append_colors", "drop"}

C24_LockOnlyForMerge ==
    /\ \A w \in Workers : mutex.owner = Some(w) <=> InMerge(w)
    /\ Cardinality({w \in Workers : InMerge(w)}) <= 1
    /\ \A w \in Workers :
            wpc[w] = "lock" \/ InMerge(w) =>
                /\ pc = "scope"
                /\ wtile[w] # None
                /\ Unwrap(wtile[w]) \in DOMAIN Unwrap(topo).geopoints_tiles
                /\ load(files, Opts, Unwrap(wtile[w])).tag = "Ok"
                /\ load(files, Opts, Unwrap(wtile[w])).val # None
    /\ \A w \in Workers :
            wpc[w] = "lock" =>
                tile_heights[w] =
                    SampleHeights(Unwrap(load(files, Opts, Unwrap(wtile[w])).val),
                                  Unwrap(topo).geopoints_tiles[Unwrap(wtile[w])])

\* one worker is inside its merge while the other one waits for the lock
\* and a third tile has been skipped: it is absent or failed to load
C24_Witness ==
    /\ \E v, w \in Workers :
            /\ wpc[v] = "append_heights"
            /\ wpc[w] = "lock"
            /\ mutex.owner = Some(v)
    /\ \E n \in DOMAIN issued :
            /\ issued[n] \in DOMAIN Unwrap(topo).geopoints_tiles
            /\ \/ load(files, Opts, issued[n]).tag = "Err"
               \/ load(files, Opts, issued[n]).val = None

\* ------------------------------------------------------------------------
\* C25: create_geopoints_tiles puts every lattice point into exactly one
\* group, the group keyed by (floor(lon), floor(lat)): the groups are
\* pairwise disjoint, their union is the whole lattice, no group is empty,
\* and every point of the group of tile t lies inside the extent of t, so
\* that calc_height on the loaded tile t never returns None for a point of
\* its own group.
\* ------------------------------------------------------------------------
GenHasGroups == gen.stage \in {"tiled", "textured", "saved"}

\* the positions (tile, n) of the mapping that hold lattice index k
GroupPositions(geopoints_tiles, k) ==
    {tn \in UNION {{<<t, n>> : n \in DOMAIN geopoints_tiles[t]} : t \in DOMAIN geopoints_tiles} :
        geopoints_tiles[tn[1]][tn[2]][1] = k}

\* the tile t as load returns it from a directory that holds every tile file
FullDirectory == Directory([t \in LegalTiles |-> TileFile(0)])

InsideExtent(t, geo_point) ==
    /\ ~RLess(geo_point.lon, RInt(t.lon)) /\ RLess(geo_point.lon, RInt(t.lon + 1))
    /\ ~RLess(geo_point.lat, RInt(t.lat)) /\ RLess(geo_point.lat, RInt(t.lat + 1))

C25_GroupsPartitionLattice ==
    GenHasGroups =>
        /\ \A k \in DOMAIN gen.geopoints :
                /\ Cardinality(GroupPositions(gen.geopoints_tiles, k)) = 1
                /\ \A tn \in GroupPositions(gen.geopoints_tiles, k) :
                        /\ tn[1] = TileID(Floor(gen.geopoints[k].lon), Floor(gen.geopoints[k].lat))
                        /\ gen.geopoints_tiles[tn[1]][tn[2]][2] = gen.geopoints[k]
        /\ \A t \in DOMAIN gen.geopoints_tiles :
                /\ Len(gen.geopoints_tiles[t]) > 0
                /\ \A n \in DOMAIN gen.geopoints_tiles[t] :
                        /\ gen.geopoints_tiles[t][n][1] \in DOMAIN gen.geopoints
                        /\ InsideExtent(t, gen.geopoints_tiles[t][n][2])
        /\ \A t \in DOMAIN gen.geopoints_tiles \cap LegalTiles :
                LET loaded == load(FullDirectory, Opts, t)
                IN  /\ loaded.tag = "Ok"
                    /\ loaded.val # None
                    /\ \A n \in DOMAIN gen.geopoints_tiles[t] :
                            calc_height(Unwrap(loaded.val), gen.geopoints_tiles[t][n][2]) = Some(257)

\* a lattice whose points fall into several tiles, one of them holding
\* several points, with a point off the integer grid west of Greenwich
C25_Witness ==
    /\ gen.stage = "tiled"
    /\ Cardinality(DOMAIN gen.geopoints_tiles) > 2
    /\ \E t \in DOMAIN gen.geopoints_tiles \cap LegalTiles :
            /\ Len(gen.geopoints_tiles[t]) > 1
            /\ t.lon < 0
            /\ \E n \in DOMAIN gen.geopoints_tiles[t] :
                    gen.geopoints_tiles[t][n][2].lon # RInt(t.lon)

\* ------------------------------------------------------------------------
\* C26: when the sampling pass returns, the key set of Heights (and of
\* Colors in color mode) is exactly the set of lattice indices of the
\* generated lattice, for both mesh strategies and every valid model size:
\* every lattice index has an entry, no entry has a key that is not a lattice
\* index, and the number of height values handed to the serializer equals
\* the number of lattice points.
\* ------------------------------------------------------------------------
C26_ExactKeySet ==
    model # None =>
        LET lattice == DOMAIN Unwrap(model).modelpoints.geopoints
        IN  /\ DOMAIN Unwrap(model).heights = lattice
            /\ Cardinality(DOMAIN Unwrap(model).heights) = Cardinality(lattice)
            /\ settings.model_type = "color" => DOMAIN Unwrap(model).colors = lattice

\* ------------------------------------------------------------------------
\* C27: in color mode the heights and the colors sampled for one tile are
\* merged inside the same critical section: whenever the mutex is free, and
\* on return, a lattice index holds a sampled height if and only if it holds
\* a sampled color, and that color is the color table's lookup of
\* floor(height) for the same index (a sampled height is a whole number, so
\* that it is its own floor).
\* ------------------------------------------------------------------------
\* the lattice indices of the tiles of the set merged that were loaded
SampledKeys(merged) ==
    UNION {GroupKeys(t) :
            t \in {u \in merged \cap DOMAIN Unwrap(topo).geopoints_tiles :
                        \E load_result \in {load(files, Opts, u)} :
                            load_result.tag = "Ok" /\ load_result.val # None}}

\* the shared maps: inside the mutex during the pass, in the model afterwards
PassMaps ==
    IF model # None
    THEN [heights |-> Unwrap(model).heights, colors |-> Unwrap(model).colors]
    ELSE [heights |-> mutex.heights, colors |-> mutex.colors]

MutexFree == pc = "scope" /\ mutex.state = "live" /\ mutex.owner = None

C27_HeightsWithColors ==
    (settings.model_type = "color" /\ (MutexFree \/ model # None)) =>
        LET geopoints == Unwrap(topo).modelpoints.geopoints
            sampled   == SampledKeys(HeightsMergedTiles)
            default   == color_mapping(color_table, Opts.sea_level)
            heights   == PassMaps.heights
            colors    == PassMaps.colors
        IN  /\ sampled = SampledKeys(ColorsMergedTiles)
            /\ \A k \in sampled :
                    /\ heights[k] = Unwrap(calc_height(Unwrap(LoadedTileOf(k)), geopoints[k]))
                    /\ colors[k] = color_mapping(color_table, heights[k])
            /\ \A k \in (DOMAIN geopoints) \ sampled :
                    /\ heights[k] = PreSeedHeight
                    /\ colors[k] = default

\* the mutex is free between two merges: one tile is merged with a color
\* that is not the pre-seeded one, another worker waits with a filled buffer
C27_Witness ==
    /\ settings.model_type = "color"
    /\ MutexFree
    /\ \E w \in Workers : wpc[w] = "lock" /\ tile_colors[w] # EmptyMap
    /\ \E k \in SampledKeys(ColorsMergedTiles) :
            /\ mutex.heights[k] = 257
            /\ mutex.colors[k] = color_mapping(color_table, 257)
            /\ mutex.colors[k] # color_mapping(color_table, Opts.sea_level)

\* ------------------------------------------------------------------------
\* C28: TILE_COUNT only ever increases and is never reset: once
\* TileID::next(limit) has returned None every later call with the same
\* limit returns None, so that a sampling pass started in the same process
\* after an earlier pass has finished receives no TileID, loads no tile and
\* returns every lattice point at its pre-seeded default.
\* ------------------------------------------------------------------------
CounterGrows == TILE_COUNT' >= TILE_COUNT

\* from the first None on, a fetch hands out nothing
ExhaustedForGood ==
    TILE_COUNT >= get_max_number_of_tiles =>
        /\ TILE_COUNT' >= get_max_number_of_tiles
        /\ TileID_next(TILE_COUNT', get_max_number_of_tiles) = None
        /\ issued' = issued
        /\ \A w \in Workers : wtile'[w] # wtile[w] => wtile'[w] = None

SecondPassSamplesNothing ==
    gen = Again =>
        /\ TILE_COUNT >= get_max_number_of_tiles
        /\ \A w \in Workers :
                /\ wpc[w] \in {"unspawned", "next", "exited"}
                /\ wtile[w] = None
                /\ tile_heights[w] = EmptyMap
                /\ tile_colors[w] = EmptyMap
        /\ mutex.state = "live" =>
                /\ \A k \in DOMAIN mutex.heights : mutex.heights[k] = PreSeedHeight
                /\ \A k \in DOMAIN mutex.colors :
                        mutex.colors[k] = color_mapping(color_table, Opts.sea_level)
        /\ model # None =>
                /\ DOMAIN Unwrap(model).modelpoints.geopoints \subseteq DOMAIN Unwrap(model).heights
                /\ \A k \in DOMAIN Unwrap(model).heights : Unwrap(model).heights[k] = PreSeedHeight
                /\ settings.model_type = "color" =>
                        /\ DOMAIN Unwrap(model).modelpoints.geopoints
                                \subseteq DOMAIN Unwrap(model).colors
                        /\ \A k \in DOMAIN Unwrap(model).colors :
                                Unwrap(model).colors[k] = color_mapping(color_table, Opts.sea_level)

C28_CounterNeverReset ==
    /\ [][CounterGrows /\ ExhaustedForGood]_vars
    /\ []SecondPassSamplesNothing

\* the second pass has returned its model, over a directory in which the
\* first pass sampled a tile: every worker of the second pass got None
C28_Witness ==
    /\ gen = Again
    /\ model # None
    /\ settings.jobs = 2
    /\ TILE_COUNT = get_max_number_of_tiles + 2 * settings.jobs
    /\ \E t \in Range(issued) :
            /\ t \in DOMAIN Unwrap(topo).geopoints_tiles
            /\ load(files, Opts, t).tag = "Ok"
            /\ load(files, Opts, t).val # None

\* ------------------------------------------------------------------------
\* C29: in the seam-duplicating lattice the north pole (lat = 90) is
\* assigned to TileID (0, 90), outside the enumerated domain lat in -90..89:
\* its group is never visited by a worker and its height (and color) on
\* return is the pre-seeded default, whatever tile files exist; every other
\* lattice point of that strategy, the south pole included, maps to a TileID
\* inside the enumerated domain.
\* ------------------------------------------------------------------------
NorthPoleTile == TileID(0, QuarterTurn)

\* the lattice indices of the points at latitude 90
NorthPoles ==
    {k \in DOMAIN Unwrap(topo).modelpoints.geopoints :
        Unwrap(topo).modelpoints.geopoints[k].lat = RInt(QuarterTurn)}

C29_NorthPoleUnsampled ==
    (topo # None /\ settings.strategy = "Obj") =>
        LET geopoints == Unwrap(topo).modelpoints.geopoints
            geopoints_tiles == Unwrap(topo).geopoints_tiles
        IN  /\ Cardinality(NorthPoles) = 1
            /\ NorthPoleTile \notin LegalTiles
            /\ NorthPoleTile \in DOMAIN geopoints_tiles
            /\ \A k \in NorthPoles :
                    /\ geopoints[k] = GeoPoint(RInt(0), RInt(QuarterTurn))
                    /\ geopoints_tiles[NorthPoleTile] = <<<<k, geopoints[k]>>>>
                    /\ \A w \in Workers :
                            /\ k \notin DOMAIN tile_heights[w]
                            /\ k \notin DOMAIN tile_colors[w]
                    /\ mutex.state = "live" =>
                            /\ mutex.heights[k] = PreSeedHeight
                            /\ settings.model_type = "color" =>
                                    mutex.colors[k] = color_mapping(color_table, Opts.sea_level)
                    /\ model # None =>
                            /\ Unwrap(model).heights[k] = PreSeedHeight
                            /\ settings.model_type = "color" =>
                                    Unwrap(model).colors[k] =
                                        color_mapping(color_table, Opts.sea_level)
            /\ NorthPoleTile \notin Range(issued)
            /\ \A w \in Workers : wtile[w] # Some(NorthPoleTile)
            /\ (DOMAIN geopoints_tiles) \ {NorthPoleTile} \subseteq LegalTiles
            /\ \A k \in (DOMAIN geopoints) \ NorthPoles :
                    TileID(Floor(geopoints[k].lon), Floor(geopoints[k].lat)) \in LegalTiles
            /\ \E k \in DOMAIN geopoints :
                    /\ geopoints[k] = GeoPoint(RInt(0), RInt(-QuarterTurn))
                    /\ <<k, geopoints[k]>> \in Range(geopoints_tiles[TileID(0, -QuarterTurn)])

\* a model is returned in which the tile under the north pole was sampled
\* and the tile of the south pole was visited, while the north pole is at
\* its default
C29_Witness ==
    /\ settings.strategy = "Obj"
    /\ model # None
    /\ \A k \in NorthPoles : Unwrap(model).heights[k] = PreSeedHeight
    /\ TileID(0, -QuarterTurn) \in Range(issued)
    /\ \E k \in DOMAIN Unwrap(model).modelpoints.geopoints :
            /\ Unwrap(model).modelpoints.geopoints[k] = GeoPoint(RInt(0), RInt(QuarterTurn - 1))
            /\ Unwrap(model).heights[k] = 257

\* ------------------------------------------------------------------------
\* C30: in the uniform grid every point has its longitude in [-180, 180)
\* and its latitude in [-90, 90): a row j < modelSize lies at latitude
\* -90 + j*180/modelSize and the last row j = modelSize at latitude -90, the
\* latitude of row 0, so that no uniform lattice point lies at latitude +90
\* and every uniform lattice point maps to a TileID inside the enumerated
\* domain.
\* ------------------------------------------------------------------------
\* the TileIDs that TileID::next hands out below the limit 180*360
EnumeratedDomain ==
    {Unwrap(TileID_next(count, get_max_number_of_tiles)) :
        count \in 0..(get_max_number_of_tiles - 1)}

C30_UniformGridInsideDomain ==
    (GenHasPoints /\ gen.strategy = "X3D") =>
        LET m == gen.model_size
        IN  /\ \A k \in DOMAIN gen.geopoints :
                    LET point == gen.geopoints[k]
                    IN  /\ ~RLess(point.lon, RInt(-HalfTurn)) /\ RLess(point.lon, RInt(HalfTurn))
                        /\ ~RLess(point.lat, RInt(-QuarterTurn))
                        /\ RLess(point.lat, RInt(QuarterTurn))
                        /\ point.lat # RInt(QuarterTurn)
                        /\ TileID(Floor(point.lon), Floor(point.lat)) \in EnumeratedDomain
                        /\ find_tile_id(point) \in LegalTiles
            /\ \A j \in 0..m : \A i \in 0..(2 * m) :
                    gen.geopoints[j * (2 * m + 1) + i].lat =
                        IF j < m
                        THEN Rat(-QuarterTurn * m + j * HalfTurn, m)
                        ELSE RInt(-QuarterTurn)
            /\ GenHasGroups => DOMAIN gen.geopoints_tiles \subseteq EnumeratedDomain

\* a grouped uniform grid whose last row coincides with row 0 and whose next
\* to last row lies in the northernmost tile row
C30_Witness ==
    /\ gen.stage = "tiled"
    /\ gen.strategy = "X3D"
    /\ gen.model_size = 6
    /\ gen.geopoints[6 * 13].lat = gen.geopoints[0].lat
    /\ gen.geopoints[5 * 13].lat = Rat(4 * QuarterTurn, 6)
    /\ \E t \in DOMAIN gen.geopoints_tiles : t.lat = QuarterTurn - 1

====
